---------------------------- MODULE Spec2Model ----------------------------
(***************************************************************************)
(* Verification model of the MPPI controller utilities of navigation2      *)
(* (nav2_mppi_controller/tools/utils.hpp).                                  *)
(*                                                                         *)
(* Numbers.  The C++ code computes in float/double.  The model draws        *)
(* coordinates and controls from small integers, which float represents    *)
(* exactly, so sums, differences and products of them are exact too.       *)
(* Indices are the 0-based indices of the source; a TLA+ sequence s holds   *)
(* the C++ element s(i) at position i + 1 (operator At).                    *)
(*                                                                         *)
(* Each utility is a pure function or a function that mutates the object    *)
(* it is handed.  Every family of utilities has its own call-frame          *)
(* variables and its own specification (SpecPath, SpecFurthest, ...):       *)
(* Start(family) draws the family's inputs from the bounded sets, the       *)
(* actions are the calls, and the variables of the other families stay at   *)
(* their idle value.                                                        *)
(***************************************************************************)
EXTENDS Integers, Sequences, FiniteSets, TLC

VARIABLES
  path,           \* nav_msgs::msg::Path::poses handed by reference to the inversion utilities
  path_before,    \* the same object as it was when the last call was entered (history variable)
  inv_ret,        \* value returned by the last inversion call
  inv_call,       \* which inversion utility ran last
  \* findPathFurthestReachedPoint (one call; its outer loop runs one row per step)
  fr_path,                 \* data.path, as (x, y) points
  fr_n_rows,               \* n_rows = dists.rows(), the batch size
  fr_i,                    \* the outer loop's i
  max_id_by_trajectories,  \* the search cursor
  min_id_by_path,          \* nearest index found for the row processed last
  fr_prev_max_id,          \* the cursor when the row processed last was entered (history variable)
  fr_read,                 \* the columns j whose dists(i, j) that row read (history variable)
  fr_ret,                  \* the value returned
  fr_nearest,              \* largest nearest index of the rows processed, each over the whole path (history variable)
  fr_pc,                   \* "idle", "loop" or "done"
  \* findPathCosts
  pc_path,            \* data.path, as (x, y) world points
  costmap,            \* the cost grid: cell (mx, my) -> cost
  tracking_unknown,   \* costmap_ros->getLayeredCostmap()->isTrackingUnknown()
  path_pts_valid,     \* data.path_pts_valid, a std::optional: <<>> unset, <<mask>> set
  pc_inspected,       \* the path indices handed to worldToMap (history variable)
  pc_pc,              \* "idle", "ready" or "done"
  \* withinPositionGoalTolerance
  gt_robot,           \* robot.position as (x, y)
  gt_goal,            \* goal.position as (x, y)
  gt_pose_tolerance,  \* the float overload's pose_tolerance
  goal_checker,       \* <<>> for nullptr, <<t>> for a checker reporting pose_tolerance.position.x = t
  gt_ret,             \* the value returned
  gt_call,            \* "idle", "none", "goal_checker" or "float": the overload called last
  \* clamp
  cl_lower, cl_upper, cl_input,   \* the arguments
  cl_out,             \* clamp(lower, upper, input)
  cl_out2,            \* clamp(lower, upper, cl_out)
  cl_pc,              \* "idle", "ready", "once" or "twice"
  \* shiftColumnsByOnePlace
  sh_e,               \* the coefficients of e in storage order (column-major): e.data()[k] = At(sh_e, k)
  sh_rows, sh_cols,   \* e.rows(), e.cols()
  sh_direction,       \* the argument direction
  sh_before,          \* the coefficients when the call was entered (history variable)
  sh_pc,              \* "idle", "ready", "returned" or "logic_error"
  \* savitskyGolayFilter
  control_sequence,        \* models::ControlSequence: the arrays vx, vy, wz
  control_history,         \* std::array<Control, 4>, oldest first
  shift_control_sequence,  \* settings.shift_control_sequence
  sg_calls,                \* how many times the function was called
  sg_applied,              \* whether the last call passed the "too short" test
  sg_sequence_before,      \* control_sequence when the last call was entered (history variable)
  sg_history_before,       \* control_history when the last call was entered (history variable)
  sg_recorded,             \* the initial history, then every control recorded into it (history variable)
  sg_pc,                   \* "idle" or "run"
  \* CriticData and its lazy caches (setPathFurthestPointIfNotSet, setPathCostsIfNotSet)
  data_trajectories,            \* data.trajectories, one row per rollout
  data_path,                    \* data.path, as (x, y) world points
  furthest_reached_path_point,  \* data.furthest_reached_path_point, a std::optional: <<>> unset, <<v>> set
  data_path_pts_valid,          \* data.path_pts_valid, a std::optional: <<>> unset, <<mask>> set
  cd_call,                      \* "idle", "none", "update" or the cache function called last
  cd_before,                    \* the cache of the function called last, as it was on entry (history variable)
  cd_fresh,                     \* what the function called last computes from its arguments (history variable)
  \* DriveOnHeading::onConfigure
  node_alive,                   \* whether this->node_.lock() yields the node
  param_acceleration_limit,     \* the parameter <behavior>.acceleration_limit
  param_deceleration_limit,     \* the parameter <behavior>.deceleration_limit
  param_minimum_speed,          \* the parameter <behavior>.minimum_speed
  acceleration_limit_,          \* the member, <<>> while not read
  deceleration_limit_,          \* the member, <<>> while not read
  minimum_speed_,               \* the member, <<>> while not read
  cfg_logged,                   \* whether RCLCPP_ERROR reported the pair
  cfg_pc,                       \* "idle", "ready", "returned" or "runtime_error"
  \* WaypointFollower::followWaypointsHandler (one invocation) and the callbacks it spins
  server_active,              \* action_server->is_server_active()
  stop_on_failure_,           \* the member stop_on_failure_
  current_goal,               \* action_server->get_current_goal(): poses, number_of_loops, goal_index
  pending_goal,               \* <<>>, or <<goal>> while is_preempt_requested()
  cancel_requested,           \* action_server->is_cancel_requested()
  poses,                      \* the local poses
  no_of_loops,                \* the local no_of_loops
  current_loop_no,            \* the local current_loop_no
  goal_index,                 \* the local goal_index
  new_goal,                   \* the local new_goal
  current_goal_status_,       \* the member: status, error_code, error_msg
  result,                     \* *result: error_code, missed_waypoints
  feedback_current_waypoint,  \* <<>>, or <<i>> for the feedback published last
  server_call,                \* the call that ended the action: "none", "terminate_current",
                              \* "terminate_all" or "succeeded_current"
  nav_goal,                   \* the navigation goal sent last: "none", "sent", "rejected" or "done"
  stale_goals,                \* earlier navigation goals still outstanding at the client
  nav_cancelled,              \* whether async_cancel_all_goals() completed
  sent_goals,                 \* every navigation goal sent, in order (history variable)
  task_calls,                 \* every processAtWaypoint call, in order (history variable)
  nav_results,                \* every status a client callback stored, in order (history variable)
  wf_request,                 \* how many pending goals were accepted (history variable)
  cycle_entry,                \* what the cycle run last found on entry (history variable)
  wf_pc,                      \* "idle", "start", "loop", "returned" or "crashed"
  \* --- DriveOnHeading::onRun
  command_x_,                 \* the distance to drive of the command being run
  command_speed_,             \* its speed
  command_time_allowance_,    \* its time allowance
  command_disable_collision_checks_,
  end_time_,                  \* when the time allowance runs out
  initial_pose_,              \* <<pose>> read when the command was taken, <<>> as constructed
  clock_now,                  \* clock_->now()
  run_command,                \* the command of the call made last
  run_before,                 \* the members before that call (history variable)
  run_ret,                    \* the ResultStatus it returned
  run_calls,                  \* the number of calls made
  run_pc,                     \* "idle" | "ready" | "returned"
  \* --- DriveOnHeading::onCycleUpdate
  cycle_frequency_,           \* cycles per second of the behavior server
  last_vel_,                  \* the linear.x published last, or numeric_limits<double>::max()
  action_start,               \* clock_->now() as onRun read it (history variable)
  cyc_entry,                  \* what the cycle run last found: time, pose, last_vel_ (history variable)
  cyc_out,                    \* what it did: stopRobot, feedback, velocity command
  cyc_ret,                    \* the ResultStatus it returned
  cyc_published,              \* linear.x of the commands published in this action, and whether
                              \* the test of minimum_speed_ changed it (history variable)
  cyc_count,                  \* the number of cycles of this action
  cyc_completed,              \* the number of actions completed
  cyc_pc,                     \* "idle" | "ready"
  \* --- Range::getData
  data_,                      \* <<>> for nullptr, <<msg>> the message dataCallback stored
  source_timeout_,            \* how old a message may be
  obstacles_angle_,           \* the angle between two points of the arc
  rg_received,                \* the messages received, oldest first (history variable)
  rg_data,                    \* the caller's vector of points
  rg_data_before,             \* that vector before the call made last (history variable)
  rg_curr_time,               \* curr_time of that call
  rg_tf,                      \* the transform its getTransform gave, <<>> if none
  rg_ret,                     \* what it returned
  rg_calls,                   \* the number of calls made
  rg_pc                       \* "idle" | "ready" | "returned": getData just returned

pathVars == <<path, path_before, inv_ret, inv_call>>

furthestVars == <<fr_path, fr_n_rows, fr_i, max_id_by_trajectories, min_id_by_path,
                  fr_prev_max_id, fr_read, fr_nearest, fr_ret, fr_pc>>

costsVars == <<pc_path, costmap, tracking_unknown, path_pts_valid, pc_inspected, pc_pc>>

goalVars == <<gt_robot, gt_goal, gt_pose_tolerance, goal_checker, gt_ret, gt_call>>

clampVars == <<cl_lower, cl_upper, cl_input, cl_out, cl_out2, cl_pc>>

shiftVars == <<sh_e, sh_rows, sh_cols, sh_direction, sh_before, sh_pc>>

filterVars == <<control_sequence, control_history, shift_control_sequence, sg_calls,
                sg_applied, sg_sequence_before, sg_history_before, sg_recorded, sg_pc>>

criticVars == <<data_trajectories, data_path, furthest_reached_path_point, data_path_pts_valid,
                cd_call, cd_before, cd_fresh>>

configureVars == <<node_alive, param_acceleration_limit, param_deceleration_limit,
                   param_minimum_speed, acceleration_limit_, deceleration_limit_,
                   minimum_speed_, cfg_logged, cfg_pc>>

waypointVars == <<server_active, stop_on_failure_, current_goal, pending_goal, cancel_requested,
                  poses, no_of_loops, current_loop_no, goal_index, new_goal,
                  current_goal_status_, result, feedback_current_waypoint, server_call,
                  nav_goal, stale_goals, nav_cancelled, sent_goals, task_calls, nav_results,
                  wf_request, cycle_entry, wf_pc>>

runVars == <<command_x_, command_speed_, command_time_allowance_,
             command_disable_collision_checks_, end_time_, initial_pose_, clock_now,
             run_command, run_before, run_ret, run_calls, run_pc>>

cycleVars == <<cycle_frequency_, last_vel_, action_start, cyc_entry, cyc_out, cyc_ret,
               cyc_published, cyc_count, cyc_completed, cyc_pc>>

rangeVars == <<data_, source_timeout_, obstacles_angle_, rg_received, rg_data, rg_data_before,
               rg_curr_time, rg_tf, rg_ret, rg_calls, rg_pc>>

vars == <<pathVars, furthestVars, costsVars, goalVars, clampVars, shiftVars, filterVars,
  criticVars, configureVars, waypointVars, runVars, cycleVars, rangeVars>>

\* the variables of the other families, which a call leaves alone
otherThanPath == <<furthestVars, costsVars, goalVars, clampVars, shiftVars, filterVars,
  criticVars, configureVars, waypointVars, runVars, cycleVars, rangeVars>>

otherThanFurthest == <<pathVars, costsVars, goalVars, clampVars, shiftVars, filterVars,
  criticVars, configureVars, waypointVars, runVars, cycleVars, rangeVars>>

otherThanCosts == <<pathVars, furthestVars, goalVars, clampVars, shiftVars, filterVars,
  criticVars, configureVars, waypointVars, runVars, cycleVars, rangeVars>>

otherThanGoal == <<pathVars, furthestVars, costsVars, clampVars, shiftVars, filterVars,
  criticVars, configureVars, waypointVars, runVars, cycleVars, rangeVars>>

otherThanShift == <<pathVars, furthestVars, costsVars, goalVars, clampVars, filterVars,
  criticVars, configureVars, waypointVars, runVars, cycleVars, rangeVars>>

otherThanFilter == <<pathVars, furthestVars, costsVars, goalVars, clampVars, shiftVars,
  criticVars, configureVars, waypointVars, runVars, cycleVars, rangeVars>>

otherThanClamp == <<pathVars, furthestVars, costsVars, goalVars, shiftVars, filterVars,
  criticVars, configureVars, waypointVars, runVars, cycleVars, rangeVars>>

otherThanCritic == <<pathVars, furthestVars, costsVars, goalVars, clampVars, shiftVars, filterVars,
  configureVars, waypointVars, runVars, cycleVars, rangeVars>>

otherThanConfigure == <<pathVars, furthestVars, costsVars, goalVars, clampVars, shiftVars, filterVars, criticVars,
  waypointVars, runVars, cycleVars, rangeVars>>

otherThanWaypoint == <<pathVars, furthestVars, costsVars, goalVars, clampVars, shiftVars, filterVars, criticVars, configureVars,
  runVars, cycleVars, rangeVars>>

otherThanRun == <<pathVars, furthestVars, costsVars, goalVars, clampVars, shiftVars, filterVars, criticVars, configureVars, waypointVars,
  cycleVars, rangeVars>>

otherThanCycle == <<pathVars, furthestVars, costsVars, goalVars, clampVars, shiftVars, filterVars, criticVars, configureVars, waypointVars, runVars,
  rangeVars>>

otherThanDrive == <<pathVars, furthestVars, costsVars, goalVars, clampVars, shiftVars, filterVars,
  criticVars, waypointVars, rangeVars>>

otherThanRange == <<pathVars, furthestVars, costsVars, goalVars, clampVars, shiftVars, filterVars, criticVars, configureVars, waypointVars, runVars, cycleVars>>

\* ------------------------------------------------------------------ helpers

\* e(i) of a C++ container held as a TLA+ sequence
At(s, i) == s[i + 1]

Max(a, b) == IF a >= b THEN a ELSE b

Min(a, b) == IF a <= b THEN a ELSE b

\* all sequences over S of length lo..hi
SeqsOf(S, lo, hi) == UNION {[1..n -> S] : n \in lo..hi}

\* ------------------------------------------------------------------ bounds

MaxPathLen == 5
MaxCoord == 2
PathYs == {0, 1}
MaxFurthestPathLen == 3
MaxRows == 3
MaxCostsPathLen == 3
MaxCellX == 1
MaxTolerance == 2
MaxClamp == 2
MaxShiftSize == 4
MaxShiftValue == 2
MaxSequenceSize == 22
MaxFilterCalls == 2
MaxCacheRows == 1
MaxCachePathLen == 2
MaxLimit == 2
MaxWaypoints == 2
MaxLoops == 1
MaxPreempts == 1
MaxPendingWaypoints == 1
MaxSentBeforePreempt == 1
MaxTarget == 1
MaxAllowance == 2
MaxRobotPoses == 1
MaxRuns == 2
MaxDriveAllowance == 1
MaxActions == 2
MaxCycles == 2
MaxTick == 1
MaxStamp == 1
MaxRange == 3
MaxMessages == 2
MaxGetDataCalls == 2
MaxCurrTime == 3

PathPoints == (0..MaxCoord) \X PathYs

\* ================================================================== path inversion

\* dot product of OA = p[idx] - p[idx-1] and AB = p[idx+1] - p[idx]
DotProduct(p, idx) ==
  LET oa_x == At(p, idx)[1] - At(p, idx - 1)[1]
      oa_y == At(p, idx)[2] - At(p, idx - 1)[2]
      ab_x == At(p, idx + 1)[1] - At(p, idx)[1]
      ab_y == At(p, idx + 1)[2] - At(p, idx)[2]
  IN  (oa_x * ab_x) + (oa_y * ab_y)

IsCusp_NonPositive(p, idx) == DotProduct(p, idx) <= 0

\* the test `dot_product < 0.0f`
IsCusp(p, idx) == DotProduct(p, idx) < 0

RECURSIVE FindInversionLoop(_, _)
\* the for loop of findFirstPathInversion, entered with idx
FindInversionLoop(p, idx) ==
  IF ~(idx < Len(p) - 1) THEN Len(p)
  ELSE IF IsCusp(p, idx) THEN idx + 1
  ELSE FindInversionLoop(p, idx + 1)

findFirstPathInversion(p) ==
  IF Len(p) < 3 THEN Len(p) ELSE FindInversionLoop(p, 1)

Erase_KeepOneMore(s, first) == SubSeq(s, 1, Min(first + 1, Len(s)))

\* poses.erase(poses.begin() + first, poses.end())
Erase(s, first) == SubSeq(s, 1, first)

removePoses_CopyOnly(p) ==
  LET first_after_inversion == findFirstPathInversion(p)
  IN  [path |-> p,
       ret |-> IF first_after_inversion = Len(p) THEN 0 ELSE first_after_inversion]

removePoses_NoZeroReturn(p) ==
  LET first_after_inversion == findFirstPathInversion(p)
  IN  [path |-> Erase(p, first_after_inversion), ret |-> first_after_inversion]

\* result of removePosesAfterFirstInversion: the path object afterwards and the return value
removePosesAfterFirstInversion(p) ==
  LET cropped_path == p
      first_after_inversion == findFirstPathInversion(cropped_path)
  IN  IF first_after_inversion = Len(p)
      THEN [path |-> p, ret |-> 0]
      ELSE [path |-> Erase(cropped_path, first_after_inversion),
            ret |-> first_after_inversion]

PathIdle ==
  /\ path = <<>>
  /\ path_before = <<>>
  /\ inv_ret = 0
  /\ inv_call = "idle"

PathInit ==
  /\ path \in SeqsOf(PathPoints, 0, MaxPathLen)
  /\ path_before = path
  /\ inv_ret = 0
  /\ inv_call = "none"

CallFindFirstPathInversion ==
  /\ inv_call # "idle"
  /\ path_before' = path
  /\ inv_ret' = findFirstPathInversion(path)
  /\ inv_call' = "findFirstPathInversion"
  /\ UNCHANGED path
  /\ UNCHANGED otherThanPath

CallRemovePosesAfterFirstInversion ==
  /\ inv_call # "idle"
  /\ path_before' = path
  /\ path' = removePosesAfterFirstInversion(path).path
  /\ inv_ret' = removePosesAfterFirstInversion(path).ret
  /\ inv_call' = "removePosesAfterFirstInversion"
  /\ UNCHANGED otherThanPath

PathNext ==
  \/ CallFindFirstPathInversion
  \/ CallRemovePosesAfterFirstInversion

\* ================================================================== furthest reached path point

\* std::numeric_limits<float>::max(), for which the largest integer of the
\* checker stands: above every squared distance of the model
FLT_MAX == 2147483647

\* every rollout of a batch starts at the robot's pose
Origin == <<0, 0>>

\* a trajectory row: its poses over the timesteps (columns), and whether they are
\* finite numbers (a diverged rollout holds NaN, and every comparison with NaN is false)
Trajectories ==
  {[pts |-> <<Origin, e>>, finite |-> TRUE] : e \in PathPoints}
    \cup {[pts |-> <<Origin, Origin>>, finite |-> FALSE]}

LastColumn_First(traj) == At(traj.pts, 0)

\* trajectories.x.col(traj_cols - 1), trajectories.y.col(traj_cols - 1)
LastColumn(traj) ==
  LET traj_cols == Len(traj.pts)
  IN  At(traj.pts, traj_cols - 1)

\* dists(i, j) = dx * dx + dy * dy for the row whose final point is pt
Dists(pt, p, j) ==
  LET dx == At(p, j)[1] - pt[1]
      dy == At(p, j)[2] - pt[2]
  IN  (dx * dx) + (dy * dy)

InnerLoopStart_Zero(cursor) == 0

\* `size_t j = max_id_by_trajectories`
InnerLoopStart(cursor) == cursor

RECURSIVE InnerLoop(_, _, _, _)
\* the loop over j for one row, entered with j; acc holds min_id_by_path,
\* min_distance_by_path and the columns read so far
InnerLoop(traj, p, j, acc) ==
  IF j = Len(p) THEN acc
  ELSE LET cur_less == traj.finite /\ Dists(LastColumn(traj), p, j) < acc.min_distance_by_path
       IN  InnerLoop(traj, p, j + 1,
             [min_id_by_path |-> IF cur_less THEN j ELSE acc.min_id_by_path,
              min_distance_by_path |->
                IF cur_less THEN Dists(LastColumn(traj), p, j) ELSE acc.min_distance_by_path,
              read |-> acc.read \cup {j}])

CursorAfter_LastRow(cursor, min_id) == min_id

\* `max_id_by_trajectories = std::max(max_id_by_trajectories, min_id_by_path)`
CursorAfter(cursor, min_id) == Max(cursor, min_id)

\* the body of the loop over i for one row
RowBody(traj, p, cursor) ==
  LET found == InnerLoop(traj, p, InnerLoopStart(cursor),
                 [min_id_by_path |-> 0, min_distance_by_path |-> FLT_MAX, read |-> {}])
  IN  [max_id_by_trajectories |-> CursorAfter(cursor, found.min_id_by_path),
       min_id_by_path |-> found.min_id_by_path,
       read |-> found.read]

\* the nearest path index of a row's final point among the indices from `from`
\* on, the lowest one on ties; 0 for a row that is not finite, whose distances
\* compare false with everything
NearestFrom(traj, p, from) ==
  IF ~traj.finite \/ from >= Len(p) THEN 0
  ELSE CHOOSE j \in from..(Len(p) - 1) :
         /\ \A k \in from..(Len(p) - 1) :
              Dists(LastColumn(traj), p, j) <= Dists(LastColumn(traj), p, k)
         /\ \A k \in from..(j - 1) :
              Dists(LastColumn(traj), p, j) < Dists(LastColumn(traj), p, k)

FurthestIdle ==
  /\ fr_path = <<>>
  /\ fr_n_rows = 0
  /\ fr_i = 0
  /\ max_id_by_trajectories = 0
  /\ min_id_by_path = 0
  /\ fr_prev_max_id = 0
  /\ fr_read = {}
  /\ fr_nearest = 0
  /\ fr_ret = -1
  /\ fr_pc = "idle"

\* entry of findPathFurthestReachedPoint, up to the first test of the loop over i
FurthestInit ==
  /\ fr_path \in SeqsOf(PathPoints, 0, MaxFurthestPathLen)
  /\ fr_n_rows \in 0..MaxRows
  /\ fr_i = 0
  /\ max_id_by_trajectories = 0
  /\ min_id_by_path = 0
  /\ fr_prev_max_id = 0
  /\ fr_read = {}
  /\ fr_nearest = 0
  /\ fr_ret = -1
  /\ fr_pc = "loop"

\* one iteration of the loop over i, on row i of the batch
FurthestRow ==
  /\ fr_pc = "loop"
  /\ fr_i # fr_n_rows
  /\ \E traj \in Trajectories :
       LET b == RowBody(traj, fr_path, max_id_by_trajectories)
       IN  /\ max_id_by_trajectories' = b.max_id_by_trajectories
           /\ min_id_by_path' = b.min_id_by_path
           /\ fr_read' = b.read
           /\ fr_nearest' = Max(fr_nearest, NearestFrom(traj, fr_path, 0))
  /\ fr_prev_max_id' = max_id_by_trajectories
  /\ fr_i' = fr_i + 1
  /\ UNCHANGED <<fr_path, fr_n_rows, fr_ret, fr_pc>>
  /\ UNCHANGED otherThanFurthest

\* `return max_id_by_trajectories`
FurthestReturn ==
  /\ fr_pc = "loop"
  /\ fr_i = fr_n_rows
  /\ fr_ret' = max_id_by_trajectories
  /\ fr_pc' = "done"
  /\ UNCHANGED <<fr_path, fr_n_rows, fr_i, max_id_by_trajectories, min_id_by_path,
                 fr_prev_max_id, fr_read, fr_nearest>>
  /\ UNCHANGED otherThanFurthest

FurthestNext ==
  \/ FurthestRow
  \/ FurthestReturn

\* ================================================================== path validity mask

\* the cost values a cell can hold; the three named ones are nav2_costmap_2d's
CostValues ==
  {"FREE_SPACE", "MEDIUM_COST", "INSCRIBED_INFLATED_OBSTACLE", "LETHAL_OBSTACLE",
   "NO_INFORMATION"}

\* the cells of the grid: size_x = MaxCellX + 1, size_y = 1
MapCells == (0..MaxCellX) \X {0}

\* the world coordinates of the lower-left corner of cell (0, 0); the resolution is 1
CostmapOrigin == <<1, 0>>

\* world points on the row of the grid, one before it and one beyond it
WorldPoints == (0..(MaxCellX + 2)) \X {0}

\* Costmap2D::worldToMap: false when the point is outside the grid, else the cell
worldToMap(wx, wy) ==
  IF wx < CostmapOrigin[1] \/ wy < CostmapOrigin[2]
  THEN [ok |-> FALSE, cell |-> <<0, 0>>]
  ELSE LET mx == wx - CostmapOrigin[1]
           my == wy - CostmapOrigin[2]
       IN  IF <<mx, my>> \in MapCells
           THEN [ok |-> TRUE, cell |-> <<mx, my>>]
           ELSE [ok |-> FALSE, cell |-> <<0, 0>>]

\* Costmap2D::getCost
getCost(map, cell) == map[cell]

\* the value findPathCosts stores for path point idx
PointValid(p, idx, map, tracking) ==
  LET w == worldToMap(At(p, idx)[1], At(p, idx)[2])
  IN  IF ~w.ok THEN FALSE
      ELSE CASE getCost(map, w.cell) = "LETHAL_OBSTACLE" -> FALSE
             [] getCost(map, w.cell) = "INSCRIBED_INFLATED_OBSTACLE" -> FALSE
             [] getCost(map, w.cell) = "NO_INFORMATION" -> (IF tracking THEN TRUE ELSE FALSE)
             [] OTHER -> TRUE

PathSegmentsCount_AllPoints(p) == Len(p)

\* `path_segments_count = data.path.x.size() - 1`
PathSegmentsCount(p) == Len(p) - 1

RECURSIVE PathCostsLoop(_, _, _, _, _)
\* the for loop of findPathCosts, entered with idx; acc holds the mask and the
\* indices inspected so far
PathCostsLoop(p, map, tracking, idx, acc) ==
  IF ~(idx < PathSegmentsCount(p)) THEN acc
  ELSE PathCostsLoop(p, map, tracking, idx + 1,
         [valid |-> [acc.valid EXCEPT ![idx + 1] = PointValid(p, idx, map, tracking)],
          inspected |-> acc.inspected \cup {idx}])

\* findPathCosts: the mask it stores in data.path_pts_valid, and what it inspected
findPathCosts(p, map, tracking) ==
  PathCostsLoop(p, map, tracking, 0,
    [valid |-> [k \in 1..PathSegmentsCount(p) |-> FALSE], inspected |-> {}])

CostsIdle ==
  /\ pc_path = <<>>
  /\ costmap = <<>>
  /\ tracking_unknown = FALSE
  /\ path_pts_valid = <<>>
  /\ pc_inspected = {}
  /\ pc_pc = "idle"

\* the path holds at least one point when the critics run
CostsInit ==
  /\ pc_path \in SeqsOf(WorldPoints, 1, MaxCostsPathLen)
  /\ costmap \in [MapCells -> CostValues]
  /\ tracking_unknown \in BOOLEAN
  /\ path_pts_valid = <<>>
  /\ pc_inspected = {}
  /\ pc_pc = "ready"

CallFindPathCosts ==
  /\ pc_pc = "ready"
  /\ path_pts_valid' = <<findPathCosts(pc_path, costmap, tracking_unknown).valid>>
  /\ pc_inspected' = findPathCosts(pc_path, costmap, tracking_unknown).inspected
  /\ pc_pc' = "done"
  /\ UNCHANGED <<pc_path, costmap, tracking_unknown>>
  /\ UNCHANGED otherThanCosts

CostsNext == CallFindPathCosts

\* ================================================================== goal tolerance

GoalPoints == (0..MaxCoord) \X (0..MaxCoord)

Tolerances == (0 - MaxTolerance)..MaxTolerance

\* the overload taking a nav2_core::GoalChecker *
withinPositionGoalTolerance(checker, robot, goal) ==
  IF checker # <<>>
  THEN LET pose_tolerance_sq == checker[1] * checker[1]
           dx == robot[1] - goal[1]
           dy == robot[2] - goal[2]
           dist_sq == (dx * dx) + (dy * dy)
       IN  IF dist_sq < pose_tolerance_sq THEN TRUE ELSE FALSE
  ELSE FALSE

withinPositionGoalToleranceFloat_AtTolerance(pose_tolerance, robot, goal) ==
  ((goal[1] - robot[1]) * (goal[1] - robot[1]))
    + ((goal[2] - robot[2]) * (goal[2] - robot[2])) <= pose_tolerance * pose_tolerance

\* the overload taking a float pose_tolerance
withinPositionGoalToleranceFloat(pose_tolerance, robot, goal) ==
  LET dist_sq == ((goal[1] - robot[1]) * (goal[1] - robot[1]))
                   + ((goal[2] - robot[2]) * (goal[2] - robot[2]))
      pose_tolerance_sq == pose_tolerance * pose_tolerance
  IN  IF dist_sq < pose_tolerance_sq THEN TRUE ELSE FALSE

GoalIdle ==
  /\ gt_robot = <<0, 0>>
  /\ gt_goal = <<0, 0>>
  /\ gt_pose_tolerance = 0
  /\ goal_checker = <<>>
  /\ gt_ret = FALSE
  /\ gt_call = "idle"

GoalInit ==
  /\ gt_robot \in GoalPoints
  /\ gt_goal \in GoalPoints
  /\ gt_pose_tolerance \in Tolerances
  /\ goal_checker \in {<<>>} \cup {<<t>> : t \in Tolerances}
  /\ gt_ret = FALSE
  /\ gt_call = "none"

CallWithinPositionGoalTolerance ==
  /\ gt_call # "idle"
  /\ gt_ret' = withinPositionGoalTolerance(goal_checker, gt_robot, gt_goal)
  /\ gt_call' = "goal_checker"
  /\ UNCHANGED <<gt_robot, gt_goal, gt_pose_tolerance, goal_checker>>
  /\ UNCHANGED otherThanGoal

CallWithinPositionGoalToleranceFloat ==
  /\ gt_call # "idle"
  /\ gt_ret' = withinPositionGoalToleranceFloat(gt_pose_tolerance, gt_robot, gt_goal)
  /\ gt_call' = "float"
  /\ UNCHANGED <<gt_robot, gt_goal, gt_pose_tolerance, goal_checker>>
  /\ UNCHANGED otherThanGoal

GoalNext ==
  \/ CallWithinPositionGoalTolerance
  \/ CallWithinPositionGoalToleranceFloat

\* ================================================================== clamp

\* a float: a number, or NaN (nan = TRUE; v is then not read)
Num(v) == [nan |-> FALSE, v |-> v]

NaN == [nan |-> TRUE, v |-> 0]

\* a < b on floats: false whenever either side is NaN
FLess(a, b) == ~a.nan /\ ~b.nan /\ a.v < b.v

\* std::max(a, b): (a < b) ? b : a
FMax(a, b) == IF FLess(a, b) THEN b ELSE a

\* std::min(a, b): (b < a) ? b : a
FMin(a, b) == IF FLess(b, a) THEN b ELSE a

clamp_MinMaxSwapped(lower_bound, upper_bound, input) ==
  FMax(upper_bound, FMin(input, lower_bound))

clamp(lower_bound, upper_bound, input) ==
  FMin(upper_bound, FMax(input, lower_bound))

\* the configured bounds are numbers; the input may be any float
ClampBounds == {Num(v) : v \in (0 - MaxClamp)..MaxClamp}

ClampInputs == {Num(v) : v \in (0 - MaxClamp - 1)..(MaxClamp + 1)} \cup {NaN}

ClampIdle ==
  /\ cl_lower = Num(0)
  /\ cl_upper = Num(0)
  /\ cl_input = Num(0)
  /\ cl_out = Num(0)
  /\ cl_out2 = Num(0)
  /\ cl_pc = "idle"

ClampInit ==
  /\ cl_lower \in ClampBounds
  /\ cl_upper \in ClampBounds
  /\ cl_input \in ClampInputs
  /\ cl_out = Num(0)
  /\ cl_out2 = Num(0)
  /\ cl_pc = "ready"

CallClamp ==
  /\ cl_pc = "ready"
  /\ cl_out' = clamp(cl_lower, cl_upper, cl_input)
  /\ cl_pc' = "once"
  /\ UNCHANGED <<cl_lower, cl_upper, cl_input, cl_out2>>
  /\ UNCHANGED otherThanClamp

\* clamp applied to its own result, under the same bounds
CallClampAgain ==
  /\ cl_pc = "once"
  /\ cl_out2' = clamp(cl_lower, cl_upper, cl_out)
  /\ cl_pc' = "twice"
  /\ UNCHANGED <<cl_lower, cl_upper, cl_input, cl_out>>
  /\ UNCHANGED otherThanClamp

ClampNext ==
  \/ CallClamp
  \/ CallClampAgain

\* ================================================================== shiftColumnsByOnePlace

\* *(e.data() + k) = v
Put(e, k, v) == [e EXCEPT ![k + 1] = v]

RECURSIVE ShiftScalarsLoop(_, _, _, _)
\* the while loop of the 1-D branch and the assignment that follows it;
\* start_ptr and end_ptr are offsets from e.data()
ShiftScalarsLoop(e, start_ptr, end_ptr, direction) ==
  IF start_ptr # end_ptr
  THEN ShiftScalarsLoop(Put(e, start_ptr + direction, At(e, start_ptr)),
                        start_ptr - direction, end_ptr, direction)
  ELSE Put(e, start_ptr + direction, At(e, start_ptr))

\* std::copy(first, first + span, dest) on offsets from e.data()
Copy(e, first, span, dest) ==
  [k \in 1..Len(e) |->
     IF dest < k /\ k <= dest + span THEN e[first + (k - dest)] ELSE e[k]]

RECURSIVE ShiftColumnsLoop(_, _, _, _, _)
\* the while loop of the 2-D branch and the copy that follows it
ShiftColumnsLoop(e, start_ptr, end_ptr, direction, span) ==
  IF start_ptr # end_ptr
  THEN ShiftColumnsLoop(Copy(e, start_ptr, span, start_ptr + direction * span),
                        start_ptr - (direction * span), end_ptr, direction, span)
  ELSE Copy(e, start_ptr, span, start_ptr + direction * span)

Abs(n) == IF n < 0 THEN 0 - n ELSE n

ShiftScalars_Rotate(e, direction) ==
  IF direction = 1
  THEN <<At(e, Len(e) - 1)>> \o SubSeq(e, 1, Len(e) - 1)
  ELSE SubSeq(e, 2, Len(e)) \o <<At(e, 0)>>

\* the 1-D branch: e is a single column or a single row of size > 1
ShiftScalars(e, direction) ==
  LET size == Len(e)
      start_ptr == IF direction = 1 THEN size - 2 ELSE 1
      end_ptr == IF direction = 1 THEN 0 ELSE size - 1
  IN  ShiftScalarsLoop(e, start_ptr, end_ptr, direction)

\* the 2-D branch
ShiftColumns(e, rows, direction) ==
  LET size == Len(e)
      start_ptr == IF direction = 1 THEN size - (2 * rows) ELSE rows
      end_ptr == IF direction = 1 THEN 0 ELSE size - rows
  IN  ShiftColumnsLoop(e, start_ptr, end_ptr, direction, rows)

\* shiftColumnsByOnePlace: the coefficients afterwards, and whether it threw
shiftColumnsByOnePlace(e, rows, cols, direction) ==
  LET size == Len(e)
  IN  IF size = 1 THEN [e |-> e, thrown |-> FALSE]
      ELSE IF Abs(direction) # 1 THEN [e |-> e, thrown |-> TRUE]
      ELSE IF (cols = 1 \/ rows = 1) /\ size > 1
           THEN [e |-> ShiftScalars(e, direction), thrown |-> FALSE]
           ELSE [e |-> ShiftColumns(e, rows, direction), thrown |-> FALSE]

\* the shapes of the arrays handed over: columns (an ArrayXf, the empty one
\* included), single rows, and matrices
ShiftShapes ==
  {<<0, 1>>} \cup
    {sh \in (1..MaxShiftSize) \X (1..MaxShiftSize) : sh[1] * sh[2] <= MaxShiftSize}

ShiftIdle ==
  /\ sh_e = <<>>
  /\ sh_rows = 0
  /\ sh_cols = 1
  /\ sh_direction = 0
  /\ sh_before = <<>>
  /\ sh_pc = "idle"

ShiftInit ==
  /\ \E sh \in ShiftShapes : sh_rows = sh[1] /\ sh_cols = sh[2]
  /\ sh_e \in [1..(sh_rows * sh_cols) -> 0..MaxShiftValue]
  /\ sh_direction \in {-1, 0, 1}
  /\ sh_before = sh_e
  /\ sh_pc = "ready"

CallShiftColumnsByOnePlace ==
  /\ sh_pc = "ready"
  /\ sh_before' = sh_e
  /\ sh_e' = shiftColumnsByOnePlace(sh_e, sh_rows, sh_cols, sh_direction).e
  /\ sh_pc' = IF shiftColumnsByOnePlace(sh_e, sh_rows, sh_cols, sh_direction).thrown
              THEN "logic_error" ELSE "returned"
  /\ UNCHANGED <<sh_rows, sh_cols, sh_direction>>
  /\ UNCHANGED otherThanShift

ShiftNext == CallShiftColumnsByOnePlace

\* ================================================================== savitskyGolayFilter

(***************************************************************************)
(* Controls are rationals whose denominator is a power of 231 (the filter   *)
(* divides by 231).  They are held in fixed point, as integer multiples of  *)
(* 1 / 231^MaxFilterCalls: a control c is the integer c * Unit.  Every      *)
(* control drawn in FilterInit is a multiple of Unit, so each of the        *)
(* MaxFilterCalls divisions by 231 is exact (FilterExact); float rounding   *)
(* of the products is not modelled.                                         *)
(***************************************************************************)
RECURSIVE Pow(_, _)
Pow(b, n) == IF n = 0 THEN 1 ELSE b * Pow(b, n - 1)

Unit == Pow(231, MaxFilterCalls)

\* Savitzky-Golay quadratic, 9-point coefficients, before `filter /= 231.0f`
FilterCoefficients == <<-21, 14, 39, 54, 59, 54, 39, 14, -21>>

FilterDivisor == 231

RECURSIVE SumTo(_, _)
\* f[1] + ... + f[n]
SumTo(f, n) == IF n = 0 THEN 0 ELSE f[n] + SumTo(f, n - 1)

\* applyFilter: (data * filter).sum(), filter being the coefficients over 231
applyFilter(data) ==
  SumTo([k \in 1..9 |-> (data[k] \div FilterDivisor) * FilterCoefficients[k]], 9)

\* `control_sequence.vx.size() - 1` stored in an unsigned int: for an empty
\* sequence it wraps to 2^32 - 1, for which the largest integer of the checker stands
NumSequences(size) == IF size >= 1 THEN size - 1 ELSE 2147483647

MinSequences == 20

TooShort_Ten(num_sequences) == num_sequences < 10

\* a sequence of exactly 20 elements counted as long enough
TooShort_Nineteen(num_sequences) == num_sequences < 19

\* the test `num_sequences < 20`
TooShort(num_sequences) == num_sequences < MinSequences

RECURSIVE FilterAxisLoop(_, _, _, _, _)
\* the for loop of applyFilterOverAxis, entered with idx; w is the window
\* <<pt_m4, pt_m3, pt_m2, pt_m1, pt, pt_p1, pt_p2, pt_p3, pt_p4>>
FilterAxisLoop(sequence, initial_sequence, idx, w, num_sequences) ==
  IF idx = num_sequences THEN sequence
  ELSE LET pt_p4 == IF idx + 5 < num_sequences
                    THEN At(initial_sequence, idx + 5)
                    ELSE At(initial_sequence, num_sequences)
       IN  FilterAxisLoop(Put(sequence, idx, applyFilter(w)), initial_sequence, idx + 1,
             <<w[2], w[3], w[4], w[5], w[6], w[7], w[8], w[9], pt_p4>>, num_sequences)

\* the window starting on the first input value instead of the control history
applyFilterOverAxis_NoHistory(sequence, initial_sequence, hist_0, hist_1, hist_2, hist_3, num_sequences) ==
  FilterAxisLoop(sequence, initial_sequence, 0,
    <<At(initial_sequence, 0), At(initial_sequence, 0), At(initial_sequence, 0),
      At(initial_sequence, 0),
      At(initial_sequence, 0), At(initial_sequence, 1), At(initial_sequence, 2),
      At(initial_sequence, 3), At(initial_sequence, 4)>>,
    num_sequences)

applyFilterOverAxis(sequence, initial_sequence, hist_0, hist_1, hist_2, hist_3, num_sequences) ==
  FilterAxisLoop(sequence, initial_sequence, 0,
    <<hist_0, hist_1, hist_2, hist_3,
      At(initial_sequence, 0), At(initial_sequence, 1), At(initial_sequence, 2),
      At(initial_sequence, 3), At(initial_sequence, 4)>>,
    num_sequences)

HistoryOffset_Swapped(shift) == IF shift THEN 0 ELSE 1

\* `offset = settings.shift_control_sequence ? 1 : 0`
HistoryOffset(shift) == IF shift THEN 1 ELSE 0

\* "Update control history": the three assignments and the new last entry
UpdateHistory(history, sequence, offset) ==
  <<history[2], history[3], history[4],
    [vx |-> At(sequence.vx, offset), vy |-> At(sequence.vy, offset),
     wz |-> At(sequence.wz, offset)]>>

\* savitskyGolayFilter: control_sequence and control_history afterwards
savitskyGolayFilter(sequence, history, shift) ==
  LET num_sequences == NumSequences(Len(sequence.vx))
  IN  IF TooShort(num_sequences)
      THEN [control_sequence |-> sequence, control_history |-> history, applied |-> FALSE]
      ELSE LET initial_control_sequence == sequence
               filtered ==
                 [vx |-> applyFilterOverAxis(sequence.vx, initial_control_sequence.vx,
                           history[1].vx, history[2].vx, history[3].vx, history[4].vx,
                           num_sequences),
                  vy |-> applyFilterOverAxis(sequence.vy, initial_control_sequence.vy,
                           history[1].vy, history[2].vy, history[3].vy, history[4].vy,
                           num_sequences),
                  wz |-> applyFilterOverAxis(sequence.wz, initial_control_sequence.wz,
                           history[1].wz, history[2].wz, history[3].wz, history[4].wz,
                           num_sequences)]
           IN  [control_sequence |-> filtered,
                control_history |-> UpdateHistory(history, filtered, HistoryOffset(shift)),
                applied |-> TRUE]

\* the control sequences drawn: per axis a different shape around timestep k
\* (an impulse on vx, a sawtooth with an impulse on vy, a step on wz)
SequenceShaped(size, k) ==
  [vx |-> [i \in 1..size |-> Unit * (IF i - 1 = k THEN 2 ELSE 1)],
   vy |-> [i \in 1..size |-> Unit * (((i - 1) % 3) + (IF i - 1 = k THEN 3 ELSE 0))],
   wz |-> [i \in 1..size |-> Unit * (IF i - 1 < k THEN 0 ELSE 1)]]

\* the control histories drawn: an impulse at entry h (none for h = 4)
HistoryShaped(h) ==
  [j \in 1..4 |->
     [vx |-> Unit * (IF j - 1 = h THEN 3 ELSE 0),
      vy |-> Unit * j,
      wz |-> Unit * (IF j - 1 = h THEN 1 ELSE 2)]]

FilterIdle ==
  /\ control_sequence = [vx |-> <<>>, vy |-> <<>>, wz |-> <<>>]
  /\ control_history = <<>>
  /\ shift_control_sequence = FALSE
  /\ sg_calls = 0
  /\ sg_applied = FALSE
  /\ sg_sequence_before = [vx |-> <<>>, vy |-> <<>>, wz |-> <<>>]
  /\ sg_history_before = <<>>
  /\ sg_recorded = <<>>
  /\ sg_pc = "idle"

\* the horizon holds at least one timestep
FilterInit ==
  /\ \E size \in 1..MaxSequenceSize : \E k \in 0..size :
       control_sequence = SequenceShaped(size, k)
  /\ \E h \in 0..4 : control_history = HistoryShaped(h)
  /\ shift_control_sequence \in BOOLEAN
  /\ sg_calls = 0
  /\ sg_applied = FALSE
  /\ sg_sequence_before = control_sequence
  /\ sg_history_before = control_history
  /\ sg_recorded = control_history
  /\ sg_pc = "run"

CallSavitskyGolayFilter ==
  /\ sg_pc = "run"
  /\ sg_calls < MaxFilterCalls
  /\ LET r == savitskyGolayFilter(control_sequence, control_history, shift_control_sequence)
     IN  /\ control_sequence' = r.control_sequence
         /\ control_history' = r.control_history
         /\ sg_applied' = r.applied
         /\ sg_recorded' =
              IF r.applied
              THEN Append(sg_recorded,
                     [vx |-> At(r.control_sequence.vx, IF shift_control_sequence THEN 1 ELSE 0),
                      vy |-> At(r.control_sequence.vy, IF shift_control_sequence THEN 1 ELSE 0),
                      wz |-> At(r.control_sequence.wz, IF shift_control_sequence THEN 1 ELSE 0)])
              ELSE sg_recorded
  /\ sg_sequence_before' = control_sequence
  /\ sg_history_before' = control_history
  /\ sg_calls' = sg_calls + 1
  /\ UNCHANGED <<shift_control_sequence, sg_pc>>
  /\ UNCHANGED otherThanFilter

FilterNext == CallSavitskyGolayFilter

\* every division by 231 the filter can still make is exact
FilterExact ==
  sg_pc = "run" =>
    LET d == Pow(FilterDivisor, MaxFilterCalls - sg_calls)
    IN  /\ \A i \in 1..Len(control_sequence.vx) :
             /\ control_sequence.vx[i] % d = 0
             /\ control_sequence.vy[i] % d = 0
             /\ control_sequence.wz[i] % d = 0
        /\ \A j \in 1..4 :
             /\ control_history[j].vx % d = 0
             /\ control_history[j].vy % d = 0
             /\ control_history[j].wz % d = 0

\* ================================================================== lazy caches of CriticData

RECURSIVE FurthestRows(_, _, _, _)
\* the loop over i of findPathFurthestReachedPoint, entered with i and the cursor
FurthestRows(trajectories, p, i, cursor) ==
  IF i = Len(trajectories) THEN cursor
  ELSE FurthestRows(trajectories, p, i + 1,
         RowBody(At(trajectories, i), p, cursor).max_id_by_trajectories)

\* findPathFurthestReachedPoint: `return max_id_by_trajectories`
findPathFurthestReachedPoint(trajectories, p) == FurthestRows(trajectories, p, 0, 0)

CacheAbsent_Always(cache) == TRUE

\* `!data.furthest_reached_path_point`, `!data.path_pts_valid`: the optional holds no value
CacheAbsent(cache) == cache = <<>>

\* setPathFurthestPointIfNotSet: the cache it leaves in data
setPathFurthestPointIfNotSet(cache, trajectories, p) ==
  IF CacheAbsent(cache)
  THEN <<findPathFurthestReachedPoint(trajectories, p)>>
  ELSE cache

\* setPathCostsIfNotSet: the cache it leaves in data
setPathCostsIfNotSet(cache, p, map, tracking) ==
  IF CacheAbsent(cache)
  THEN <<findPathCosts(p, map, tracking).valid>>
  ELSE cache

\* the path points of the cache calls: on the row of the grid
CachePoints == (0..MaxCoord) \X {0}

\* the batches of the cache calls: rollouts ending on the row of the grid, or diverged
CacheTrajectories ==
  SeqsOf({t \in Trajectories : LastColumn(t) \in CachePoints}, 0, MaxCacheRows)

CachePaths == SeqsOf(CachePoints, 1, MaxCachePathLen)

CriticIdle ==
  /\ data_trajectories = <<>>
  /\ data_path = <<>>
  /\ furthest_reached_path_point = <<>>
  /\ data_path_pts_valid = <<>>
  /\ cd_call = "idle"
  /\ cd_before = <<>>
  /\ cd_fresh = <<>>

\* a CriticData whose caches are not computed yet
CriticInit ==
  /\ data_trajectories \in CacheTrajectories
  /\ data_path \in CachePaths
  /\ furthest_reached_path_point = <<>>
  /\ data_path_pts_valid = <<>>
  /\ cd_call = "none"
  /\ cd_before = <<>>
  /\ cd_fresh = <<>>

CallSetPathFurthestPointIfNotSet ==
  /\ cd_call # "idle"
  /\ furthest_reached_path_point' =
       setPathFurthestPointIfNotSet(furthest_reached_path_point, data_trajectories, data_path)
  /\ cd_before' = furthest_reached_path_point
  /\ cd_fresh' = <<findPathFurthestReachedPoint(data_trajectories, data_path)>>
  /\ cd_call' = "setPathFurthestPointIfNotSet"
  /\ UNCHANGED <<data_trajectories, data_path, data_path_pts_valid>>
  /\ UNCHANGED otherThanCritic

\* costmap_ros is an argument of the call: any cost grid, tracking unknown space or not
CallSetPathCostsIfNotSet ==
  /\ cd_call # "idle"
  /\ \E map \in [MapCells -> CostValues] : \E tracking \in BOOLEAN :
       /\ data_path_pts_valid' = setPathCostsIfNotSet(data_path_pts_valid, data_path, map, tracking)
       /\ cd_fresh' = <<findPathCosts(data_path, map, tracking).valid>>
  /\ cd_before' = data_path_pts_valid
  /\ cd_call' = "setPathCostsIfNotSet"
  /\ UNCHANGED <<data_trajectories, data_path, furthest_reached_path_point>>
  /\ UNCHANGED otherThanCritic

\* data.trajectories and data.path are references to the optimizer's state: between
\* two calls they can hold other rollouts or another path, the caches staying as
\* they are
UpdateData ==
  /\ cd_call # "idle"
  /\ \E t \in CacheTrajectories : \E p \in CachePaths :
       /\ <<t, p>> # <<data_trajectories, data_path>>
       /\ data_trajectories' = t
       /\ data_path' = p
  /\ cd_call' = "update"
  /\ cd_before' = <<>>
  /\ cd_fresh' = <<>>
  /\ UNCHANGED <<furthest_reached_path_point, data_path_pts_valid>>
  /\ UNCHANGED otherThanCritic

CriticNext ==
  \/ CallSetPathFurthestPointIfNotSet
  \/ CallSetPathCostsIfNotSet
  \/ UpdateData

\* ================================================================== DriveOnHeading::onConfigure

\* the values the parameters can be given
Limits == (0 - MaxLimit)..MaxLimit

\* `acceleration_limit_ <= 0.0 || deceleration_limit_ >= 0.0`
Misconfigured(acceleration_limit, deceleration_limit) ==
  acceleration_limit <= 0 \/ deceleration_limit >= 0

\* the members acceleration_limit_ and deceleration_limit_ as onConfigure leaves
\* them, and whether it logged
CorrectLimits(acceleration_limit, deceleration_limit) ==
  IF Misconfigured(acceleration_limit, deceleration_limit)
  THEN [acceleration_limit_ |-> Abs(acceleration_limit),
        deceleration_limit_ |-> 0 - Abs(deceleration_limit),
        logged |-> TRUE]
  ELSE [acceleration_limit_ |-> acceleration_limit,
        deceleration_limit_ |-> deceleration_limit,
        logged |-> FALSE]

ConfigureIdle ==
  /\ node_alive = FALSE
  /\ param_acceleration_limit = 0
  /\ param_deceleration_limit = 0
  /\ param_minimum_speed = 0
  /\ acceleration_limit_ = <<>>
  /\ deceleration_limit_ = <<>>
  /\ minimum_speed_ = <<>>
  /\ cfg_logged = FALSE
  /\ cfg_pc = "idle"

\* the behavior before onConfigure: the parameters hold any values
ConfigureInit ==
  /\ node_alive \in BOOLEAN
  /\ param_acceleration_limit \in Limits
  /\ param_deceleration_limit \in Limits
  /\ param_minimum_speed \in 0..MaxLimit
  /\ acceleration_limit_ = <<>>
  /\ deceleration_limit_ = <<>>
  /\ minimum_speed_ = <<>>
  /\ cfg_logged = FALSE
  /\ cfg_pc = "ready"

\* DriveOnHeading::onConfigure
OnConfigure ==
  /\ cfg_pc = "ready"
  /\ IF ~node_alive
     THEN /\ cfg_pc' = "runtime_error"
          /\ UNCHANGED <<acceleration_limit_, deceleration_limit_, minimum_speed_, cfg_logged>>
     ELSE LET c == CorrectLimits(param_acceleration_limit, param_deceleration_limit)
          IN  /\ acceleration_limit_' = <<c.acceleration_limit_>>
              /\ deceleration_limit_' = <<c.deceleration_limit_>>
              /\ minimum_speed_' = <<param_minimum_speed>>
              /\ cfg_logged' = c.logged
              /\ cfg_pc' = "returned"
  /\ UNCHANGED <<node_alive, param_acceleration_limit, param_deceleration_limit,
                 param_minimum_speed>>
  /\ UNCHANGED otherThanConfigure

ConfigureNext == OnConfigure

\* ================================================================== WaypointFollower::followWaypointsHandler

\* One invocation of the handler.  A step of the model is the entry of the
\* handler up to its loop (HandlerStart), one cycle of its loop up to the
\* spin_some() that ends it (HandlerCycle), or one callback run by that
\* spin_some() (the callbacks of the navigation client).  Cancel and preempt
\* requests are set by the action server's threads at any time.  rclcpp::ok()
\* holds throughout.  A request names a goal_index below its number of poses.

\* the poses of the n waypoints of request number r: all different
RequestPoses(r, n) == [i \in 1..n |-> <<r, i - 1>>]

\* the requests a client can send
Goals(r) ==
  UNION {{[poses |-> RequestPoses(r, n), number_of_loops |-> l, goal_index |-> g] :
            l \in 0..MaxLoops, g \in 0..Max(n - 1, 0)} : n \in 0..MaxWaypoints}

\* the goals that can be pending: the handler reads only the poses of a goal it
\* accepts by preemption
PendingGoals(r) ==
  {g \in Goals(r) :
     g.number_of_loops = 0 /\ g.goal_index = 0 /\ Len(g.poses) <= MaxPendingWaypoints}

\* rclcpp_action::ResultCode of a navigation result
ResultCodes == {"SUCCEEDED", "ABORTED", "CANCELED", "UNKNOWN"}

\* poses[i]
PoseAt(ps, i) == IF i < Len(ps) THEN At(ps, i) ELSE <<"out of range", i>>

\* the handler's locals, the members and the objects it acts on, as one record
Frame ==
  [poses |-> poses, no_of_loops |-> no_of_loops, current_loop_no |-> current_loop_no,
   goal_index |-> goal_index, new_goal |-> new_goal,
   current_goal_status_ |-> current_goal_status_, result |-> result,
   feedback_current_waypoint |-> feedback_current_waypoint, server_call |-> server_call,
   nav_goal |-> nav_goal, stale_goals |-> stale_goals, nav_cancelled |-> nav_cancelled,
   sent_goals |-> sent_goals, task_calls |-> task_calls, nav_results |-> nav_results,
   wf_request |-> wf_request,
   pending_goal |-> pending_goal, wf_pc |-> wf_pc]

IsEmpty_Never(ps) == FALSE

\* poses.empty()
IsEmpty(ps) == Len(ps) = 0

\* result->error_code = NO_VALID_WAYPOINTS; terminate_current(result); return
NoValidWaypoints(f) ==
  [f EXCEPT !.result.error_code = "NO_VALID_WAYPOINTS",
            !.server_call = "terminate_current",
            !.wf_pc = "returned"]

\* the handler up to its loop
Entry(f, goal) ==
  LET g == [f EXCEPT !.no_of_loops = goal.number_of_loops,
                     !.current_loop_no = 0,
                     !.poses = goal.poses]
  IN  IF ~server_active THEN [g EXCEPT !.wf_pc = "returned"]
      ELSE IF IsEmpty(g.poses) THEN NoValidWaypoints(g)
      ELSE [g EXCEPT !.goal_index = goal.goal_index, !.new_goal = TRUE, !.wf_pc = "loop"]

\* `if (action_server->is_preempt_requested())`
Preempt(f) ==
  IF f.wf_pc # "loop" \/ f.pending_goal = <<>> THEN f
  ELSE LET g == [f EXCEPT !.poses = f.pending_goal[1].poses,
                          !.pending_goal = <<>>,
                          !.wf_request = @ + 1]
       IN  IF IsEmpty(g.poses) THEN NoValidWaypoints(g)
           ELSE [g EXCEPT !.goal_index = 0, !.new_goal = TRUE]

\* `if (new_goal)`: async_send_goal; a goal sent earlier and still outstanding
\* stays at the client
SendGoal(f) ==
  IF f.wf_pc # "loop" \/ ~f.new_goal THEN f
  ELSE [f EXCEPT !.new_goal = FALSE,
                 !.sent_goals =
                   Append(@, [waypoint_index |-> f.goal_index,
                              pose |-> PoseAt(f.poses, f.goal_index),
                              request |-> f.wf_request,
                              previous |-> IF f.sent_goals = <<>> THEN "none"
                                           ELSE f.current_goal_status_.status]),
                 !.stale_goals = IF f.nav_goal = "sent" THEN @ + 1 ELSE @,
                 !.nav_goal = "sent",
                 !.current_goal_status_.status = "PROCESSING"]

\* feedback->current_waypoint = goal_index; publish_feedback(feedback)
Publish(f) ==
  IF f.wf_pc # "loop" THEN f
  ELSE [f EXCEPT !.feedback_current_waypoint = <<f.goal_index>>]

FailedStatus_FailedOnly(status) == status = "FAILED"

\* status == FAILED || status == UNKNOWN
FailedStatus(status) == status = "FAILED" \/ status = "UNKNOWN"

TaskDue_UnlessFailed(status) == status \notin {"FAILED", "UNKNOWN"}

\* status == SUCCEEDED
TaskDue(status) == status = "SUCCEEDED"

MissedWaypoint_NextIndex(f, code, msg) ==
  [waypoint_index |-> f.goal_index + 1,
   waypoint_pose |-> PoseAt(f.poses, f.goal_index + 1),
   error_code |-> code,
   error_msg |-> msg]

\* the WaypointStatus pushed onto result->missed_waypoints
MissedWaypoint(f, code, msg) ==
  [waypoint_index |-> f.goal_index,
   waypoint_pose |-> PoseAt(f.poses, f.goal_index),
   error_code |-> code,
   error_msg |-> msg]

\* result->error_code = code; terminate_current(result); the stored error is reset; return
Terminate(f, code) ==
  [f EXCEPT !.result.error_code = code,
            !.server_call = "terminate_current",
            !.current_goal_status_.error_code = "NONE",
            !.current_goal_status_.error_msg = "",
            !.wf_pc = "returned"]

\* the tests of current_goal_status_.status; is_task_executed is what
\* processAtWaypoint returns if it is called
Evaluate(f, is_task_executed) ==
  IF f.wf_pc # "loop" THEN f
  ELSE IF FailedStatus(f.current_goal_status_.status)
  THEN LET g == [f EXCEPT !.result.missed_waypoints =
                    Append(@, MissedWaypoint(f, f.current_goal_status_.error_code,
                                             f.current_goal_status_.error_msg))]
       IN  IF stop_on_failure_ THEN Terminate(g, "STOP_ON_MISSED_WAYPOINT") ELSE g
  ELSE IF TaskDue(f.current_goal_status_.status)
  THEN LET g == [f EXCEPT !.task_calls =
                    Append(@, [waypoint_index |-> f.goal_index,
                               pose |-> PoseAt(f.poses, f.goal_index),
                               goal |-> Len(f.sent_goals),
                               status |-> f.current_goal_status_.status,
                               is_task_executed |-> is_task_executed])]
           h == IF ~is_task_executed
                THEN [g EXCEPT !.result.missed_waypoints =
                        Append(@, MissedWaypoint(f, "TASK_EXECUTOR_FAILED",
                                                 "Task execution failed"))]
                ELSE g
       IN  IF ~is_task_executed /\ stop_on_failure_
           THEN Terminate(h, "TASK_EXECUTOR_FAILED")
           ELSE h
  ELSE f

\* current_loop_no == no_of_loops
LoopsDone(loop_no, loops) == loop_no = loops

NextIndex_Skip(i) == i + 2

\* goal_index++
NextIndex(i) == i + 1

\* `if (current_goal_status_.status != ActionStatus::PROCESSING)`
Advance(f) ==
  IF f.wf_pc # "loop" \/ f.current_goal_status_.status = "PROCESSING" THEN f
  ELSE LET g == [f EXCEPT !.goal_index = NextIndex(@), !.new_goal = TRUE]
       IN  IF g.goal_index >= Len(g.poses)
           THEN IF LoopsDone(g.current_loop_no, g.no_of_loops)
                THEN [g EXCEPT !.server_call = "succeeded_current",
                               !.current_goal_status_.error_code = "NONE",
                               !.current_goal_status_.error_msg = "",
                               !.wf_pc = "returned"]
                ELSE [g EXCEPT !.goal_index = 0, !.current_loop_no = @ + 1]
           ELSE g

\* WaypointFollower::resultCallback for the goal sent last: current_goal_status_ afterwards
resultCallback(status, code) ==
  CASE code = "SUCCEEDED" -> [status EXCEPT !.status = "SUCCEEDED"]
    [] code = "ABORTED" ->
         [status |-> "FAILED", error_code |-> "NAVIGATION_ERROR",
          error_msg |-> "navigation error"]
    [] code = "CANCELED" -> [status EXCEPT !.status = "FAILED"]
    [] OTHER ->
         [status |-> "UNKNOWN", error_code |-> "UNKNOWN",
          error_msg |-> "Received an UNKNOWN result code from navigation action!"]

\* WaypointFollower::goalResponseCallback with a null goal handle
goalResponseCallback(status) ==
  [status |-> "FAILED", error_code |-> "UNKNOWN",
   error_msg |-> "navigate_to_pose action client failed to send goal to server."]

\* the entry of nav_results for a callback that stores status while goal number
\* Len(sent_goals) is the one sent last
Stored(f, status) == [goal |-> Len(f.sent_goals), status |-> status.status]

\* `if (action_server->is_cancel_requested())`: every navigation goal is
\* cancelled and the cancellation awaited; late is the result of the goal sent
\* last if its callback runs in those spins, "none" if none does
Cancel(f, late) ==
  [f EXCEPT !.nav_cancelled = TRUE,
            !.stale_goals = 0,
            !.nav_goal = IF @ = "sent" THEN "done" ELSE @,
            !.current_goal_status_ =
              IF f.nav_goal = "sent" /\ late # "none" THEN resultCallback(@, late) ELSE @,
            !.nav_results =
              IF f.nav_goal = "sent" /\ late # "none"
              THEN Append(@, Stored(f, resultCallback(f.current_goal_status_, late)))
              ELSE @,
            !.server_call = "terminate_all",
            !.wf_pc = "returned"]

CancelObserved_UnlessPreempt(cancel, pending) == cancel /\ pending = <<>>

\* the first test of a cycle
CancelObserved(cancel, pending) == cancel

\* one cycle of `while (rclcpp::ok())`
Cycle(f, is_task_executed, late) ==
  IF CancelObserved(cancel_requested, f.pending_goal)
  THEN Cancel(f, late)
  ELSE Advance(Evaluate(Publish(SendGoal(Preempt(f))), is_task_executed))


NoEntry ==
  [cancel |-> FALSE, preempt |-> FALSE, status |-> "UNKNOWN", new_goal |-> FALSE,
   goal_index |-> 0]

WaypointIdle ==
  /\ server_active = FALSE
  /\ stop_on_failure_ = FALSE
  /\ current_goal = [poses |-> <<>>, number_of_loops |-> 0, goal_index |-> 0]
  /\ pending_goal = <<>>
  /\ cancel_requested = FALSE
  /\ poses = <<>>
  /\ no_of_loops = 0
  /\ current_loop_no = 0
  /\ goal_index = 0
  /\ new_goal = FALSE
  /\ current_goal_status_ = [status |-> "UNKNOWN", error_code |-> "NONE", error_msg |-> ""]
  /\ result = [error_code |-> "NONE", missed_waypoints |-> <<>>]
  /\ feedback_current_waypoint = <<>>
  /\ server_call = "none"
  /\ nav_goal = "none"
  /\ stale_goals = 0
  /\ nav_cancelled = FALSE
  /\ sent_goals = <<>>
  /\ task_calls = <<>>
  /\ nav_results = <<>>
  /\ wf_request = 0
  /\ cycle_entry = NoEntry
  /\ wf_pc = "idle"

\* followWaypointsCallback is about to call the handler with a fresh result and
\* feedback; current_goal_status_ is as constructed or as a completed invocation left it
WaypointInit ==
  /\ server_active \in BOOLEAN
  /\ stop_on_failure_ \in BOOLEAN
  /\ current_goal \in Goals(0)
  /\ pending_goal = <<>>
  /\ cancel_requested = FALSE
  /\ poses = <<>>
  /\ no_of_loops = 0
  /\ current_loop_no = 0
  /\ goal_index = 0
  /\ new_goal = FALSE
  /\ \E s \in {"UNKNOWN", "SUCCEEDED"} :
       current_goal_status_ = [status |-> s, error_code |-> "NONE", error_msg |-> ""]
  /\ result = [error_code |-> "NONE", missed_waypoints |-> <<>>]
  /\ feedback_current_waypoint = <<>>
  /\ server_call = "none"
  /\ nav_goal = "none"
  /\ stale_goals = 0
  /\ nav_cancelled = FALSE
  /\ sent_goals = <<>>
  /\ task_calls = <<>>
  /\ nav_results = <<>>
  /\ wf_request = 0
  /\ cycle_entry = NoEntry
  /\ wf_pc = "start"

\* the handler's step leaves the frame f
Unpack(f) ==
  /\ poses' = f.poses
  /\ no_of_loops' = f.no_of_loops
  /\ current_loop_no' = f.current_loop_no
  /\ goal_index' = f.goal_index
  /\ new_goal' = f.new_goal
  /\ current_goal_status_' = f.current_goal_status_
  /\ result' = f.result
  /\ feedback_current_waypoint' = f.feedback_current_waypoint
  /\ server_call' = f.server_call
  /\ nav_goal' = f.nav_goal
  /\ stale_goals' = f.stale_goals
  /\ nav_cancelled' = f.nav_cancelled
  /\ sent_goals' = f.sent_goals
  /\ task_calls' = f.task_calls
  /\ nav_results' = f.nav_results
  /\ wf_request' = f.wf_request
  /\ pending_goal' = f.pending_goal
  /\ wf_pc' = f.wf_pc

\* followWaypointsHandler from its entry to `while (rclcpp::ok())`
HandlerStart ==
  /\ wf_pc = "start"
  /\ Unpack(Entry(Frame, current_goal))
  /\ UNCHANGED <<server_active, stop_on_failure_, current_goal, cancel_requested, cycle_entry>>
  /\ UNCHANGED otherThanWaypoint

\* one cycle of the loop, up to spin_some() and r.sleep()
HandlerCycle ==
  /\ wf_pc = "loop"
  /\ \E is_task_executed \in (IF TaskDue(SendGoal(Preempt(Frame)).current_goal_status_.status)
                               THEN BOOLEAN ELSE {TRUE}) :
     \E late \in (IF cancel_requested /\ nav_goal = "sent"
                  THEN ResultCodes \cup {"none"} ELSE {"none"}) :
       Unpack(Cycle(Frame, is_task_executed, late))
  /\ current_goal' =
       IF ~cancel_requested /\ pending_goal # <<>> THEN pending_goal[1] ELSE current_goal
  /\ cycle_entry' =
       [cancel |-> cancel_requested, preempt |-> pending_goal # <<>>,
        status |-> current_goal_status_.status, new_goal |-> new_goal,
        goal_index |-> goal_index]
  /\ UNCHANGED <<server_active, stop_on_failure_, cancel_requested>>
  /\ UNCHANGED otherThanWaypoint

\* the variables a callback or a request leaves alone
handlerLocals ==
  <<server_active, stop_on_failure_, current_goal, poses, no_of_loops, current_loop_no,
    goal_index, new_goal, result, feedback_current_waypoint, server_call, nav_cancelled,
    sent_goals, task_calls, wf_request, cycle_entry, wf_pc>>

\* a client asks to cancel the action
RequestCancel ==
  /\ wf_pc \in {"start", "loop"}
  /\ ~cancel_requested
  /\ cancel_requested' = TRUE
  /\ UNCHANGED <<handlerLocals, pending_goal, current_goal_status_, nav_goal, stale_goals,
                 nav_results>>
  /\ UNCHANGED otherThanWaypoint

\* a client sends another goal while this one runs
RequestPreempt ==
  /\ wf_pc \in {"start", "loop"}
  /\ pending_goal = <<>>
  /\ wf_request < MaxPreempts
  /\ Len(sent_goals) <= MaxSentBeforePreempt
  /\ \E g \in PendingGoals(wf_request + 1) : pending_goal' = <<g>>
  /\ UNCHANGED <<handlerLocals, cancel_requested, current_goal_status_, nav_goal, stale_goals,
                 nav_results>>
  /\ UNCHANGED otherThanWaypoint

\* resultCallback, run by spin_some(), with the result of the goal sent last
ResultCallback ==
  /\ wf_pc = "loop"
  /\ nav_goal = "sent"
  /\ \E code \in ResultCodes : current_goal_status_' = resultCallback(current_goal_status_, code)
  /\ nav_results' = Append(nav_results, Stored(Frame, current_goal_status_'))
  /\ nav_goal' = "done"
  /\ UNCHANGED <<handlerLocals, pending_goal, cancel_requested, stale_goals>>
  /\ UNCHANGED otherThanWaypoint

\* resultCallback with the result of an earlier goal: the goal ids differ and it
\* returns; when the goal sent last was rejected the handle it compares with is
\* null and the dereference ends the process
StaleResultCallback ==
  /\ wf_pc = "loop"
  /\ stale_goals > 0
  /\ stale_goals' = stale_goals - 1
  /\ wf_pc' = IF nav_goal = "rejected" THEN "crashed" ELSE wf_pc
  /\ UNCHANGED <<server_active, stop_on_failure_, current_goal, poses, no_of_loops,
                 current_loop_no, goal_index, new_goal, result, feedback_current_waypoint,
                 server_call, nav_cancelled, sent_goals, task_calls, wf_request, cycle_entry>>
  /\ UNCHANGED <<pending_goal, cancel_requested, current_goal_status_, nav_goal, nav_results>>
  /\ UNCHANGED otherThanWaypoint

\* goalResponseCallback, run by spin_some(): the navigation server rejected the
\* goal sent last
GoalResponseCallback ==
  /\ wf_pc = "loop"
  /\ nav_goal = "sent"
  /\ current_goal_status_' = goalResponseCallback(current_goal_status_)
  /\ nav_results' = Append(nav_results, Stored(Frame, current_goal_status_'))
  /\ nav_goal' = "rejected"
  /\ UNCHANGED <<handlerLocals, pending_goal, cancel_requested, stale_goals>>
  /\ UNCHANGED otherThanWaypoint

\* goalResponseCallback for an earlier goal that was rejected: it compares no
\* goal id and marks the current status
StaleGoalResponseCallback ==
  /\ wf_pc = "loop"
  /\ stale_goals > 0
  /\ current_goal_status_' = goalResponseCallback(current_goal_status_)
  /\ nav_results' = Append(nav_results, Stored(Frame, current_goal_status_'))
  /\ stale_goals' = stale_goals - 1
  /\ UNCHANGED <<handlerLocals, pending_goal, cancel_requested, nav_goal>>
  /\ UNCHANGED otherThanWaypoint

WaypointNext ==
  \/ HandlerStart
  \/ HandlerCycle
  \/ RequestCancel
  \/ RequestPreempt
  \/ ResultCallback
  \/ StaleResultCallback
  \/ GoalResponseCallback
  \/ StaleGoalResponseCallback

\* ================================================================== DriveOnHeading::onRun

\* the commands a client can send
Commands ==
  [target : [x : (0 - MaxTarget)..MaxTarget, y : 0..MaxTarget, z : 0..MaxTarget],
   speed : (0 - MaxTarget)..MaxTarget,
   time_allowance : 1..MaxAllowance,
   disable_collision_checks : BOOLEAN]

\* the poses tf can give for the robot
RobotPoses == 1..MaxRobotPoses

\* what nav2_util::getCurrentPose can have written to its argument when it
\* fails: nothing, or the identity pose it starts from
FailedPoseReads(pose, identity) == {pose, <<identity>>}

SignsMatch_NonNegative(x, speed) == (x >= 0) = (speed >= 0)

\* (command->target.x > 0.0) == (command->speed > 0.0)
SignsMatch(x, speed) == (x > 0) = (speed > 0)

\* the members onRun assigns
Members ==
  [command_x_ |-> command_x_, command_speed_ |-> command_speed_,
   command_time_allowance_ |-> command_time_allowance_,
   command_disable_collision_checks_ |-> command_disable_collision_checks_,
   end_time_ |-> end_time_, initial_pose_ |-> initial_pose_]

\* the ResultStatus for invalid input
InvalidInput == [status |-> "FAILED", error_code |-> "INVALID_INPUT"]

RunIdle ==
  /\ command_x_ = 0
  /\ command_speed_ = 0
  /\ command_time_allowance_ = 0
  /\ command_disable_collision_checks_ = FALSE
  /\ end_time_ = 0
  /\ initial_pose_ = <<>>
  /\ clock_now = 0
  /\ run_command = <<>>
  /\ run_before = <<>>
  /\ run_ret = <<>>
  /\ run_calls = 0
  /\ run_pc = "idle"

\* the behavior as constructed
RunInit ==
  /\ command_x_ = 0
  /\ command_speed_ = 0
  /\ command_time_allowance_ = 0
  /\ command_disable_collision_checks_ = FALSE
  /\ end_time_ = 0
  /\ initial_pose_ = <<>>
  /\ clock_now = 0
  /\ run_command = <<>>
  /\ run_before = <<>>
  /\ run_ret = <<>>
  /\ run_calls = 0
  /\ run_pc = "ready"

\* onRun(command); pose is what tf gives for the robot, <<>> when the transform
\* is not available
onRun(command, pose, identity) ==
  /\ run_command' = <<command>>
  /\ IF command.target.y # 0 \/ command.target.z # 0
     THEN /\ run_ret' = InvalidInput
          /\ UNCHANGED <<command_x_, command_speed_, command_time_allowance_,
                         command_disable_collision_checks_, end_time_, initial_pose_>>
     ELSE IF ~SignsMatch(command.target.x, command.speed)
     THEN /\ run_ret' = InvalidInput
          /\ UNCHANGED <<command_x_, command_speed_, command_time_allowance_,
                         command_disable_collision_checks_, end_time_, initial_pose_>>
     ELSE /\ command_x_' = command.target.x
          /\ command_speed_' = command.speed
          /\ command_time_allowance_' = command.time_allowance
          /\ command_disable_collision_checks_' = command.disable_collision_checks
          /\ end_time_' = clock_now + command.time_allowance
          /\ IF pose = <<>>
             THEN /\ initial_pose_' \in FailedPoseReads(initial_pose_, identity)
                  /\ run_ret' = [status |-> "FAILED", error_code |-> "TF_ERROR"]
             ELSE /\ initial_pose_' = pose
                  /\ run_ret' = [status |-> "SUCCEEDED", error_code |-> "NONE"]

\* a call of onRun; a tick of the clock passes
OnRun ==
  /\ run_pc \in {"ready", "returned"}
  /\ run_calls < MaxRuns
  /\ \E command \in Commands, pose \in {<<>>} \cup {<<p>> : p \in RobotPoses} :
       onRun(command, pose, 0)
  /\ run_before' = <<Members>>
  /\ clock_now' = clock_now + 1
  /\ run_calls' = run_calls + 1
  /\ run_pc' = "returned"
  /\ UNCHANGED otherThanRun

RunNext == OnRun

\* ================================================================== DriveOnHeading::onCycleUpdate

\* One action of the behavior: onRun takes the command, the behavior server
\* calls onCycleUpdate cycle after cycle until it returns SUCCEEDED or FAILED
\* or the action is cancelled, and then calls onActionCompletion.  Distances,
\* speeds and limits are drawn from values for which hypot, sqrt and the
\* division by cycle_frequency_ are exact.

\* positions tf can give for the robot: their distances are 0, 3, 4 and 5
DrivePositions == {<<0, 0>>, <<3, 0>>, <<0, 4>>}

\* what getCurrentPose gives: <<>> when the transform is not available
PoseReads == {<<>>} \cup {<<p>> : p \in DrivePositions}

DriveTargets == {0 - 4, 4}

DriveSpeeds == {0 - 3, 0, 3}

\* the commands sent to the behavior
DriveCommands ==
  [target : [x : DriveTargets, y : {0}, z : {0}],
   speed : DriveSpeeds,
   time_allowance : 0..MaxDriveAllowance,
   disable_collision_checks : BOOLEAN]

AccelerationLimits == {0, 2}

DecelerationLimits == {0 - 2, 0}

MinimumSpeeds == {0, 1}

CycleFrequencies == {1, 2}

\* std::numeric_limits<double>::max()
NumericMax == [max |-> TRUE, v |-> 0]

\* a speed stored in last_vel_
Speed(v) == [max |-> FALSE, v |-> v]

\* the ResultStatus values of onCycleUpdate
Status(status, error_code) == [status |-> status, error_code |-> error_code]

\* sqrt of a perfect square
Sqrt(n) == CHOOSE r \in 0..n : r * r = n

\* hypot(diff_x, diff_y)
Hypot(diff_x, diff_y) == Sqrt(diff_x * diff_x + diff_y * diff_y)

\* distance of the position current from the position initial
DistanceTraveled(initial, current) ==
  Hypot(initial[1] - current[1], initial[2] - current[2])

TimedOut_AtDeadline(time_remaining, time_allowance) ==
  time_remaining <= 0 /\ time_allowance > 0

\* time_remaining.seconds() < 0.0 && command_time_allowance_.seconds() > 0.0
TimedOut(time_remaining, time_allowance) ==
  time_remaining < 0 /\ time_allowance > 0

Reached_Beyond(distance, command_x) == distance > Abs(command_x)

\* distance >= std::fabs(command_x_)
Reached(distance, command_x) == distance >= Abs(command_x)

\* last_vel_ == max ? 0.0 : last_vel_
CurrentSpeed(last_vel) == IF last_vel.max THEN 0 ELSE last_vel.v

FeasibleSpeeds_Unlimited(current_speed, forward, acceleration, deceleration) ==
  [min |-> current_speed - 2 * Abs(acceleration) - 2 * Abs(deceleration) - 3,
   max |-> current_speed + 2 * Abs(acceleration) + 2 * Abs(deceleration) + 3]

\* min_feasible_speed and max_feasible_speed; acceleration and deceleration are
\* the limits divided by cycle_frequency_
FeasibleSpeeds(current_speed, forward, acceleration, deceleration) ==
  IF forward
  THEN [min |-> current_speed + deceleration, max |-> current_speed + acceleration]
  ELSE [min |-> current_speed - acceleration, max |-> current_speed - deceleration]

\* std::clamp(v, lo, hi)
StdClamp(v, lo, hi) == IF v < lo THEN lo ELSE IF hi < v THEN hi ELSE v

\* std::sqrt(-2.0 * deceleration_limit_ * remaining_distance)
MaxVelToStop(deceleration_limit, remaining_distance) ==
  Sqrt((0 - 2) * deceleration_limit * remaining_distance)

\* `if (max_vel_to_stop < std::abs(linear.x))`
SlowDown(linear_x, forward, max_vel_to_stop) ==
  IF max_vel_to_stop < Abs(linear_x)
  THEN IF forward THEN max_vel_to_stop ELSE 0 - max_vel_to_stop
  ELSE linear_x

\* `if (std::fabs(linear.x) < minimum_speed_)`
AtLeastMinimum(linear_x, forward, minimum_speed) ==
  IF Abs(linear_x) < minimum_speed
  THEN IF forward THEN minimum_speed ELSE 0 - minimum_speed
  ELSE linear_x

\* linear.x of a cycle at the given distance, before the test of minimum_speed_
Slowed(distance) ==
  LET current_speed == CurrentSpeed(last_vel_)
      forward == command_speed_ > 0
      feasible == FeasibleSpeeds(current_speed, forward,
                                 acceleration_limit_[1] \div cycle_frequency_,
                                 deceleration_limit_[1] \div cycle_frequency_)
      clamped == StdClamp(command_speed_, feasible.min, feasible.max)
      remaining_distance == Abs(command_x_) - distance
  IN  SlowDown(clamped, forward, MaxVelToStop(deceleration_limit_[1], remaining_distance))

\* the velocity command of a cycle at the given distance
CmdVel(distance) ==
  [linear_x |-> AtLeastMinimum(Slowed(distance), command_speed_ > 0, minimum_speed_[1]),
   linear_y |-> 0,
   angular_z |-> 0]

\* DriveOnHeading::isCollisionFree; checker_free is what the collision checker
\* says of the poses simulated ahead
isCollisionFree(checker_free) == command_disable_collision_checks_ \/ checker_free

\* what a cycle does that returns without a velocity command
Returned(ret, stopped, feedback) ==
  [ret |-> ret, stopped |-> stopped, feedback |-> feedback, published |-> <<>>,
   last_vel_ |-> last_vel_]

\* onCycleUpdate() at time now, with pose read from tf
onCycleUpdate(now, pose, checker_free) ==
  IF TimedOut(end_time_ - now, command_time_allowance_)
  THEN Returned(Status("FAILED", "TIMEOUT"), TRUE, <<>>)
  ELSE IF pose = <<>>
  THEN Returned(Status("FAILED", "TF_ERROR"), FALSE, <<>>)
  ELSE LET distance == DistanceTraveled(initial_pose_[1], pose[1])
       IN  IF Reached(distance, command_x_)
           THEN Returned(Status("SUCCEEDED", "NONE"), TRUE, <<distance>>)
           ELSE IF ~isCollisionFree(checker_free)
           THEN Returned(Status("FAILED", "COLLISION_AHEAD"), TRUE, <<distance>>)
           ELSE [ret |-> Status("RUNNING", "NONE"), stopped |-> FALSE,
                 feedback |-> <<distance>>, published |-> <<CmdVel(distance)>>,
                 last_vel_ |-> Speed(CmdVel(distance).linear_x)]

onActionCompletion_Keep(last_vel) == last_vel

\* DriveOnHeading::onActionCompletion: last_vel_ afterwards
onActionCompletion(last_vel) == NumericMax

\* the states DriveOnHeading::onConfigure leaves
Configured ==
  /\ node_alive = TRUE
  /\ param_acceleration_limit \in AccelerationLimits
  /\ param_deceleration_limit \in DecelerationLimits
  /\ param_minimum_speed \in MinimumSpeeds
  /\ LET c == CorrectLimits(param_acceleration_limit, param_deceleration_limit)
     IN  /\ acceleration_limit_ = <<c.acceleration_limit_>>
         /\ deceleration_limit_ = <<c.deceleration_limit_>>
         /\ cfg_logged = c.logged
  /\ minimum_speed_ = <<param_minimum_speed>>
  /\ cfg_pc = "returned"

NoCycle == [now |-> 0, pose |-> <<>>, last_vel_ |-> NumericMax, remaining |-> 0]

NoOutput == [stopped |-> FALSE, feedback |-> <<>>, published |-> <<>>]

CycleIdle ==
  /\ cycle_frequency_ = 1
  /\ last_vel_ = NumericMax
  /\ action_start = 0
  /\ cyc_entry = NoCycle
  /\ cyc_out = NoOutput
  /\ cyc_ret = <<>>
  /\ cyc_published = <<>>
  /\ cyc_count = 0
  /\ cyc_completed = 0
  /\ cyc_pc = "idle"

\* the behavior as configured, before its first action
CycleInit ==
  /\ cycle_frequency_ \in CycleFrequencies
  /\ last_vel_ = NumericMax
  /\ action_start = 0
  /\ cyc_entry = NoCycle
  /\ cyc_out = NoOutput
  /\ cyc_ret = <<>>
  /\ cyc_published = <<>>
  /\ cyc_count = 0
  /\ cyc_completed = 0
  /\ cyc_pc = "ready"

\* the status of a ResultStatus, "none" when nothing returned yet
StatusOf(ret) == IF ret = <<>> THEN "none" ELSE ret.status

\* an action is under way: onRun took its command and onActionCompletion was
\* not called yet
ActionRunning ==
  /\ StatusOf(run_ret) = "SUCCEEDED"
  /\ cyc_completed < run_calls

\* the behavior server runs onRun for a new command
DriveRun ==
  /\ cyc_pc = "ready"
  /\ run_pc \in {"ready", "returned"}
  /\ ~ActionRunning
  /\ run_calls < MaxActions
  /\ \E command \in DriveCommands, pose \in PoseReads : onRun(command, pose, <<0, 0>>)
  /\ clock_now' = clock_now + 1
  /\ run_calls' = run_calls + 1
  /\ run_pc' = "returned"
  /\ action_start' = clock_now
  /\ cyc_ret' = <<>>
  /\ cyc_count' = 0
  /\ cyc_published' = <<>>
  /\ cyc_entry' = NoCycle
  /\ cyc_out' = NoOutput
  /\ UNCHANGED <<run_before, cycle_frequency_, last_vel_, cyc_completed, cyc_pc>>
  /\ UNCHANGED <<configureVars, otherThanDrive>>

\* one cycle of the action; time passes while it runs
OnCycleUpdate ==
  /\ cyc_pc = "ready"
  /\ ActionRunning
  /\ StatusOf(cyc_ret) \in {"none", "RUNNING"}
  /\ cyc_count < MaxCycles
  /\ \E pose \in PoseReads, checker_free \in BOOLEAN :
       LET out == onCycleUpdate(clock_now, pose, checker_free)
       IN  /\ cyc_entry' = [now |-> clock_now, pose |-> pose, last_vel_ |-> last_vel_,
                            remaining |-> end_time_ - clock_now]
           /\ cyc_out' = [stopped |-> out.stopped, feedback |-> out.feedback,
                          published |-> out.published]
           /\ cyc_ret' = out.ret
           /\ last_vel_' = out.last_vel_
           /\ cyc_published' =
                IF out.published = <<>> THEN cyc_published
                ELSE Append(cyc_published,
                       [linear_x |-> out.published[1].linear_x,
                        raised |-> out.published[1].linear_x
                                     # Slowed(out.feedback[1])])
  /\ \E tick \in 0..MaxTick : clock_now' = clock_now + tick
  /\ cyc_count' = cyc_count + 1
  /\ UNCHANGED <<cycle_frequency_, action_start, cyc_completed, cyc_pc>>
  /\ UNCHANGED <<command_x_, command_speed_, command_time_allowance_,
                 command_disable_collision_checks_, end_time_, initial_pose_,
                 run_command, run_before, run_ret, run_calls, run_pc>>
  /\ UNCHANGED <<configureVars, otherThanDrive>>

\* the behavior server ends the action, after the cycle that returned SUCCEEDED
\* or FAILED or on a cancel, and calls onActionCompletion
OnActionCompletion ==
  /\ cyc_pc = "ready"
  /\ ActionRunning
  /\ last_vel_' = onActionCompletion(last_vel_)
  /\ cyc_completed' = run_calls
  /\ UNCHANGED <<cycle_frequency_, action_start, cyc_entry, cyc_out, cyc_ret, cyc_published,
                 cyc_count, cyc_pc>>
  /\ UNCHANGED <<runVars, configureVars, otherThanDrive>>

CycleNext ==
  \/ DriveRun
  \/ OnCycleUpdate
  \/ OnActionCompletion

\* ================================================================== Range::getData

\* sensor_msgs::msg::Range: the fields getData reads
RangeMessages ==
  [stamp : 0..MaxStamp, range : 0..MaxRange, min_range : {1}, max_range : {MaxRange - 1},
   field_of_view : {0, 2}]

\* Source::sourceValid: the message is no older than source_timeout_
sourceValid(source_time, curr_time) == curr_time - source_time <= source_timeout_

OutOfSpan_Inclusive(msg) == msg.range <= msg.min_range \/ msg.range >= msg.max_range

\* data_->range < data_->min_range || data_->range > data_->max_range
OutOfSpan(msg) == msg.range < msg.min_range \/ msg.range > msg.max_range

RECURSIVE ArcAngles(_, _)
\* the angles of `for (angle = -field_of_view / 2; angle < field_of_view / 2;
\* angle += obstacles_angle_)`, from angle on, for the half angle given
ArcAngles(angle, half) ==
  IF angle < half THEN <<angle>> \o ArcAngles(angle + obstacles_angle_, half) ELSE <<>>

\* the point at the measured range and the given angle, brought to the base
\* frame by tf_transform
BasePoint(tf_transform, msg, angle) ==
  [tf_transform |-> tf_transform, range |-> msg.range, angle |-> angle]

\* the points getData pushes for a message: the arc, then its last point
ArcPoints(tf_transform, msg) ==
  LET half == msg.field_of_view \div 2
      angles == ArcAngles(0 - half, half) \o <<half>>
  IN  [k \in DOMAIN angles |-> BasePoint(tf_transform, msg, angles[k])]

\* Range::getData(curr_time, data); tf is what getTransform finds, <<>> if it fails
getData(curr_time, data, tf) ==
  IF data_ = <<>> THEN [ret |-> FALSE, data |-> data]
  ELSE IF ~sourceValid(data_[1].stamp, curr_time) THEN [ret |-> FALSE, data |-> data]
  ELSE IF OutOfSpan(data_[1]) THEN [ret |-> FALSE, data |-> data]
  ELSE IF tf = <<>> THEN [ret |-> FALSE, data |-> data]
  ELSE [ret |-> TRUE, data |-> data \o ArcPoints(tf[1], data_[1])]

dataCallback_KeepFirst(data, msg) == IF data = <<>> THEN <<msg>> ELSE data

\* Range::dataCallback: data_ afterwards
dataCallback(data, msg) == <<msg>>

\* a point another source put into the vector
OtherPoint == [tf_transform |-> "other", range |-> 0, angle |-> 0]

RangeIdle ==
  /\ data_ = <<>>
  /\ source_timeout_ = 0
  /\ obstacles_angle_ = 0
  /\ rg_received = <<>>
  /\ rg_data = <<>>
  /\ rg_data_before = <<>>
  /\ rg_curr_time = 0
  /\ rg_tf = <<>>
  /\ rg_ret = FALSE
  /\ rg_calls = 0
  /\ rg_pc = "idle"

\* the source as configured, nothing received yet; the caller's vector holds
\* the points of other sources
RangeInit ==
  /\ data_ = <<>>
  /\ source_timeout_ = 1
  /\ obstacles_angle_ \in {1, 2}
  /\ rg_received = <<>>
  /\ rg_data \in {<<>>, <<OtherPoint>>}
  /\ rg_data_before = <<>>
  /\ rg_curr_time = 0
  /\ rg_tf = <<>>
  /\ rg_ret = FALSE
  /\ rg_calls = 0
  /\ rg_pc = "ready"

\* a message arrives
DataCallback ==
  /\ rg_pc \in {"ready", "returned"}
  /\ Len(rg_received) < MaxMessages
  /\ \E msg \in RangeMessages :
       /\ data_' = dataCallback(data_, msg)
       /\ rg_received' = Append(rg_received, msg)
  /\ rg_pc' = "ready"
  /\ UNCHANGED <<source_timeout_, obstacles_angle_, rg_data, rg_data_before, rg_curr_time,
                 rg_tf, rg_ret, rg_calls>>
  /\ UNCHANGED otherThanRange

\* a call of getData
GetData ==
  /\ rg_pc \in {"ready", "returned"}
  /\ rg_calls < MaxGetDataCalls
  /\ \E curr_time \in 0..MaxCurrTime, tf \in {<<>>, <<"tf">>} :
       LET out == getData(curr_time, rg_data, tf)
       IN  /\ rg_ret' = out.ret
           /\ rg_data' = out.data
           /\ rg_curr_time' = curr_time
           /\ rg_tf' = tf
  /\ rg_data_before' = rg_data
  /\ rg_calls' = rg_calls + 1
  /\ rg_pc' = "returned"
  /\ UNCHANGED <<data_, source_timeout_, obstacles_angle_, rg_received>>
  /\ UNCHANGED otherThanRange

RangeNext ==
  \/ DataCallback
  \/ GetData

\* ================================================================== specifications

\* the state in which the utilities of `family` are about to be called on inputs
\* drawn from the bounded sets, the other families being idle
Start(family) ==
  /\ IF family = "path" THEN PathInit ELSE PathIdle
  /\ IF family = "furthest" THEN FurthestInit ELSE FurthestIdle
  /\ IF family = "costs" THEN CostsInit ELSE CostsIdle
  /\ IF family = "goal" THEN GoalInit ELSE GoalIdle
  /\ IF family = "clamp" THEN ClampInit ELSE ClampIdle
  /\ IF family = "shift" THEN ShiftInit ELSE ShiftIdle
  /\ IF family = "filter" THEN FilterInit ELSE FilterIdle
  /\ IF family = "critic" THEN CriticInit ELSE CriticIdle
  /\ IF family = "configure" THEN ConfigureInit
     ELSE IF family = "cycle" THEN Configured ELSE ConfigureIdle
  /\ IF family = "waypoint" THEN WaypointInit ELSE WaypointIdle
  /\ IF family \in {"run", "cycle"} THEN RunInit ELSE RunIdle
  /\ IF family = "cycle" THEN CycleInit ELSE CycleIdle
  /\ IF family = "range" THEN RangeInit ELSE RangeIdle

SpecPath == Start("path") /\ [][PathNext]_vars

SpecFurthest == Start("furthest") /\ [][FurthestNext]_vars

SpecCosts == Start("costs") /\ [][CostsNext]_vars

SpecGoal == Start("goal") /\ [][GoalNext]_vars

SpecClamp == Start("clamp") /\ [][ClampNext]_vars

SpecShift == Start("shift") /\ [][ShiftNext]_vars

SpecFilter == Start("filter") /\ [][FilterNext]_vars

SpecCritic == Start("critic") /\ [][CriticNext]_vars

SpecConfigure == Start("configure") /\ [][ConfigureNext]_vars

SpecWaypoint == Start("waypoint") /\ [][WaypointNext]_vars

\* the handler with its scheduling: the thread running it takes its steps, and
\* the navigation server answers every goal it is sent
SpecWaypointFair ==
  /\ SpecWaypoint
  /\ WF_vars(HandlerStart)
  /\ WF_vars(HandlerCycle)
  /\ WF_vars(ResultCallback \/ GoalResponseCallback)

SpecRun == Start("run") /\ [][RunNext]_vars

SpecCycle == Start("cycle") /\ [][CycleNext]_vars

SpecRange == Start("range") /\ [][RangeNext]_vars

\* ------------------------------------------------------------------ claims on path inversion

ExamplePath == << <<0, 0>>, <<1, 0>>, <<2, 0>>, <<1, 0>>, <<0, 0>> >>

\* (p[idx] - p[idx-1]) . (p[idx+1] - p[idx]) < 0, stated on the points themselves
Reverses(p, idx) ==
  ((p[idx + 1][1] - p[idx][1]) * (p[idx + 2][1] - p[idx + 1][1]))
    + ((p[idx + 1][2] - p[idx][2]) * (p[idx + 2][2] - p[idx + 1][2])) < 0

\* interior indices (0-based, 1 <= idx <= size-2) at which the direction reverses
Reversals(p) == {idx \in 1..(Len(p) - 2) : Reverses(p, idx)}

\* C1: findFirstPathInversion returns idx+1 for the smallest interior index idx
\* whose incoming and outgoing directions have a negative dot product, and the
\* path size when there is none (in particular below 3 poses); on
\* (0,0),(1,0),(2,0),(1,0),(0,0) it returns 3.
C1_FirstInversion ==
  inv_call = "findFirstPathInversion" =>
    /\ path = path_before
    /\ Reversals(path) # {} =>
         /\ inv_ret - 1 \in Reversals(path)
         /\ \A idx \in Reversals(path) : inv_ret - 1 <= idx
    /\ Reversals(path) = {} => inv_ret = Len(path)
    /\ Len(path) < 3 => inv_ret = Len(path)
    /\ path = ExamplePath => inv_ret = 3

C1_Witness ==
  /\ inv_call = "findFirstPathInversion"
  /\ path = ExamplePath
  /\ inv_ret = 3

\* C2: removePosesAfterFirstInversion, when findFirstPathInversion yields r
\* smaller than the path size, leaves exactly the first r poses in their order
\* and returns r; with no inversion (every path below 3 poses included) it
\* returns 0 and leaves the path unchanged.
C2_RemoveAfterInversion ==
  inv_call = "removePosesAfterFirstInversion" =>
    LET r == findFirstPathInversion(path_before)
    IN  /\ r < Len(path_before) =>
             /\ Len(path) = r
             /\ \A i \in 1..r : path[i] = path_before[i]
             /\ inv_ret = r
        /\ r >= Len(path_before) => (inv_ret = 0 /\ path = path_before)
        /\ Len(path_before) < 3 => (inv_ret = 0 /\ path = path_before)

C2_Witness ==
  /\ inv_call = "removePosesAfterFirstInversion"
  /\ path_before = ExamplePath
  /\ path = << <<0, 0>>, <<1, 0>>, <<2, 0>> >>
  /\ inv_ret = 3

\* C3: after removePosesAfterFirstInversion the path holds no direction
\* reversal, so a second application returns 0 and changes nothing.
C3_TruncationIdempotent ==
  inv_call = "removePosesAfterFirstInversion" =>
    /\ Reversals(path) = {}
    /\ removePosesAfterFirstInversion(path) = [path |-> path, ret |-> 0]

\* a truncation that happened and left a path long enough to hold a reversal
C3_Witness ==
  /\ inv_call = "removePosesAfterFirstInversion"
  /\ Len(path) < Len(path_before)
  /\ Len(path) >= 4
  /\ inv_ret = Len(path)

\* C12 as stated: the path object handed to removePosesAfterFirstInversion by
\* its caller is never mutated, the truncation touching a working copy only.
C12_CallerPathNeverMutated ==
  inv_call = "removePosesAfterFirstInversion" => path = path_before

\* C12: removePosesAfterFirstInversion truncates the path object it is handed:
\* the local copy is assigned back through the reference, so the caller's path
\* is shortened to the poses before the return value when it holds a direction
\* reversal, and it is left as it was exactly when it holds none (return 0).
C12_TruncatesCallerPath ==
  inv_call = "removePosesAfterFirstInversion" =>
    /\ (path = path_before) <=> (Reversals(path_before) = {})
    /\ (path = path_before) <=> (inv_ret = 0)
    /\ path # path_before =>
         /\ Len(path) < Len(path_before)
         /\ path = SubSeq(path_before, 1, inv_ret)

\* the caller's path of five poses came back with three
C12_Witness ==
  /\ inv_call = "removePosesAfterFirstInversion"
  /\ Len(path_before) = 5
  /\ Len(path) = 3
  /\ path # path_before
  /\ inv_ret = 3

\* ------------------------------------------------------------------ claims on the furthest reached point

\* C4: the search cursor max_id_by_trajectories never decreases from one
\* trajectory row to the next, a row's nearest-point search reads only path
\* indices at or beyond the cursor it was entered with, and the returned index
\* is the final value of the cursor.
C4_CursorMonotonic ==
  /\ fr_pc # "idle" =>
       /\ fr_prev_max_id <= max_id_by_trajectories
       /\ \A j \in fr_read : fr_prev_max_id <= j /\ j < Len(fr_path)
  /\ fr_pc = "done" => fr_ret = max_id_by_trajectories

\* a row that moved the cursor forward after an earlier row had already moved it
C4_Witness ==
  /\ fr_pc = "done"
  /\ fr_i = 3
  /\ 0 < fr_prev_max_id
  /\ fr_prev_max_id < max_id_by_trajectories
  /\ fr_read # {}
  /\ fr_ret = max_id_by_trajectories

\* ------------------------------------------------------------------ claims on clamp

\* C6: clamp is idempotent, clamp(l, u, clamp(l, u, x)) = clamp(l, u, x) for
\* all bounds and inputs; and when l <= u the result lies in [l, u] and is x
\* itself whenever x already lies in [l, u].
C6_ClampIdempotent ==
  /\ cl_pc = "twice" => (~cl_out2.nan /\ ~cl_out.nan /\ cl_out2.v = cl_out.v)
  /\ (cl_pc \in {"once", "twice"} /\ cl_lower.v <= cl_upper.v) =>
       /\ ~cl_out.nan
       /\ cl_lower.v <= cl_out.v /\ cl_out.v <= cl_upper.v
       /\ (~cl_input.nan /\ cl_lower.v <= cl_input.v /\ cl_input.v <= cl_upper.v)
            => cl_out.v = cl_input.v

\* an input above the range, clamped twice
C6_Witness ==
  /\ cl_pc = "twice"
  /\ cl_lower.v < cl_upper.v
  /\ ~cl_input.nan /\ cl_input.v > cl_upper.v
  /\ cl_out = cl_upper
  /\ cl_out2 = cl_upper

\* ------------------------------------------------------------------ claims on the path validity mask

\* the cell under world point pt, stated on the grid: one cell per unit, cell
\* (0, 0) at CostmapOrigin
CellUnder(pt) == <<pt[1] - CostmapOrigin[1], pt[2] - CostmapOrigin[2]>>

\* C7: findPathCosts stores a mask of exactly (number of path points - 1)
\* entries; entry idx is true iff path point idx maps into the grid and its
\* cell is neither LETHAL_OBSTACLE nor INSCRIBED_INFLATED_OBSTACLE, and is not
\* NO_INFORMATION unless unknown space is tracked; the last path point is never
\* inspected.
C7_PathValidityMask ==
  pc_pc = "done" =>
    /\ Len(path_pts_valid) = 1
    /\ Len(path_pts_valid[1]) = Len(pc_path) - 1
    /\ \A idx \in 0..(Len(pc_path) - 2) :
         path_pts_valid[1][idx + 1] =
           (/\ CellUnder(pc_path[idx + 1]) \in DOMAIN costmap
            /\ costmap[CellUnder(pc_path[idx + 1])]
                 \notin {"LETHAL_OBSTACLE", "INSCRIBED_INFLATED_OBSTACLE"}
            /\ (costmap[CellUnder(pc_path[idx + 1])] = "NO_INFORMATION" => tracking_unknown))
    /\ (Len(pc_path) - 1) \notin pc_inspected

\* a mask with a valid unknown cell, an invalid point and an uninspected last
\* point that lies on a lethal cell
C7_Witness ==
  /\ pc_pc = "done"
  /\ Len(pc_path) = 3
  /\ tracking_unknown
  /\ costmap[<<0, 0>>] = "NO_INFORMATION"
  /\ costmap[<<1, 0>>] = "LETHAL_OBSTACLE"
  /\ pc_path = << <<1, 0>>, <<0, 0>>, <<2, 0>> >>
  /\ path_pts_valid = << <<TRUE, FALSE>> >>
  /\ pc_inspected = {0, 1}

\* ------------------------------------------------------------------ claims on the goal tolerance

SquaredDistance(a, b) == ((a[1] - b[1]) * (a[1] - b[1])) + ((a[2] - b[2]) * (a[2] - b[2]))

\* C8: withinPositionGoalTolerance returns true iff the squared planar distance
\* between robot and goal is strictly below the squared position tolerance (a
\* pose exactly at the tolerance distance is not at goal); the goal-checker
\* overload takes the tolerance from the checker's position.x tolerance and
\* returns false for every pose when there is no goal checker.
C8_WithinGoalTolerance ==
  /\ gt_call = "float" =>
       /\ gt_ret = (SquaredDistance(gt_robot, gt_goal) < gt_pose_tolerance * gt_pose_tolerance)
       /\ SquaredDistance(gt_robot, gt_goal) = gt_pose_tolerance * gt_pose_tolerance
            => gt_ret = FALSE
  /\ gt_call = "goal_checker" =>
       /\ goal_checker = <<>> => gt_ret = FALSE
       /\ goal_checker # <<>> =>
            /\ gt_ret = (SquaredDistance(gt_robot, gt_goal) < goal_checker[1] * goal_checker[1])
            /\ SquaredDistance(gt_robot, gt_goal) = goal_checker[1] * goal_checker[1]
                 => gt_ret = FALSE

\* a pose exactly at the tolerance distance from the goal
C8_Witness ==
  /\ gt_call = "float"
  /\ gt_pose_tolerance = 2
  /\ SquaredDistance(gt_robot, gt_goal) = 4
  /\ gt_ret = FALSE

\* ------------------------------------------------------------------ claims on shiftColumnsByOnePlace

\* C9: on a 1-D sequence of n > 1 elements, direction -1 gives
\* new[i] = old[i+1] for 0 <= i < n-1 (nothing wraps around) and keeps the old
\* last value in the last place, so the last two elements are equal; direction
\* +1 gives new[i+1] = old[i] for 0 <= i < n-1 and new[0] = old[0]; a 1-element
\* array is left unchanged.
C9_ShiftByOnePlace ==
  LET n == Len(sh_before)
  IN  /\ (sh_pc = "returned" /\ (sh_cols = 1 \/ sh_rows = 1) /\ n > 1) =>
           /\ Len(sh_e) = n
           /\ sh_direction = -1 =>
                /\ \A i \in 0..(n - 2) : sh_e[i + 1] = sh_before[i + 2]
                /\ sh_e[n] = sh_before[n]
                /\ sh_e[n] = sh_e[n - 1]
           /\ sh_direction = 1 =>
                /\ \A i \in 0..(n - 2) : sh_e[i + 2] = sh_before[i + 1]
                /\ sh_e[1] = sh_before[1]
      /\ (sh_pc \in {"returned", "logic_error"} /\ n = 1) =>
           (sh_pc = "returned" /\ sh_e = sh_before)

\* a column of 4 advanced by one step
C9_Witness ==
  /\ sh_pc = "returned"
  /\ sh_direction = -1
  /\ sh_rows = 4 /\ sh_cols = 1
  /\ sh_before = <<0, 1, 2, 0>>
  /\ sh_e = <<1, 2, 0, 0>>

\* ------------------------------------------------------------------ claims on the smoothing filter

\* C5: savitskyGolayFilter is a no-op when the control sequence has fewer than
\* 20 elements: every element of vx, vy and wz and all 4 entries of the control
\* history are left unchanged.
C5_ShortHorizonNoOp ==
  (sg_calls > 0 /\ Len(sg_sequence_before.vx) < 20) =>
    /\ control_sequence.vx = sg_sequence_before.vx
    /\ control_sequence.vy = sg_sequence_before.vy
    /\ control_sequence.wz = sg_sequence_before.wz
    /\ Len(control_history) = 4
    /\ \A j \in 1..4 : control_history[j] = sg_history_before[j]

\* the longest horizon below the threshold, after a call
C5_Witness ==
  /\ sg_calls = 1
  /\ Len(sg_sequence_before.vx) = 19
  /\ control_sequence = sg_sequence_before
  /\ control_history = sg_history_before

\* C10: every time the filter is applied the control history keeps exactly 4
\* entries and advances by exactly one: new history[0..2] are old history[1..3]
\* and new history[3] is the smoothed control (vx, vy, wz) at sequence index 1
\* when shift_control_sequence is set and at index 0 otherwise; after any
\* number of applications the history holds the last 4 recorded controls in
\* the order they were recorded.
C10_HistoryAdvances ==
  /\ sg_applied =>
       /\ Len(control_history) = 4
       /\ \A j \in 1..3 : control_history[j] = sg_history_before[j + 1]
       /\ shift_control_sequence =>
            control_history[4] = [vx |-> control_sequence.vx[2],
                                  vy |-> control_sequence.vy[2],
                                  wz |-> control_sequence.wz[2]]
       /\ ~shift_control_sequence =>
            control_history[4] = [vx |-> control_sequence.vx[1],
                                  vy |-> control_sequence.vy[1],
                                  wz |-> control_sequence.wz[1]]
  /\ sg_pc = "run" =>
       /\ Len(control_history) = 4
       /\ control_history = SubSeq(sg_recorded, Len(sg_recorded) - 3, Len(sg_recorded))

\* two applications with shifting on, the sequence index mattering
C10_Witness ==
  /\ sg_calls = 2
  /\ sg_applied
  /\ shift_control_sequence
  /\ Len(sg_recorded) = 6
  /\ control_sequence.vx[1] # control_sequence.vx[2]
  /\ control_history[4].vx = control_sequence.vx[2]
  /\ control_history[3] = sg_history_before[4]
  /\ control_history[3] # control_history[4]

\* ------------------------------------------------------------------ claims on the lazy caches

\* C11: setPathFurthestPointIfNotSet and setPathCostsIfNotSet fill their cache only
\* when it is absent: after a call on an absent cache the cache holds what
\* findPathFurthestReachedPoint / findPathCosts compute from the call's arguments,
\* and after a call on a cache that is set the cache holds the value it held on
\* entry, whatever the trajectories, the path and the cost grid of the call are.
C11_LazyCaches ==
  /\ cd_call = "setPathFurthestPointIfNotSet" =>
       /\ cd_fresh = <<findPathFurthestReachedPoint(data_trajectories, data_path)>>
       /\ furthest_reached_path_point = (IF cd_before = <<>> THEN cd_fresh ELSE cd_before)
  /\ cd_call = "setPathCostsIfNotSet" =>
       /\ Len(cd_fresh[1]) = Len(data_path) - 1
       /\ data_path_pts_valid = (IF cd_before = <<>> THEN cd_fresh ELSE cd_before)

\* a call of setPathCostsIfNotSet kept a mask that a recomputation on its
\* arguments would have changed, while the furthest-point cache, filled earlier
\* and kept by a later call, also differs from what the current data give
C11_Witness ==
  /\ cd_call = "setPathCostsIfNotSet"
  /\ cd_before # <<>>
  /\ cd_before # cd_fresh
  /\ data_path_pts_valid = cd_before
  /\ furthest_reached_path_point # <<>>
  /\ furthest_reached_path_point # <<findPathFurthestReachedPoint(data_trajectories, data_path)>>

\* ------------------------------------------------------------------ claims on DriveOnHeading::onConfigure

\* C13: onConfigure never rejects an acceleration/deceleration pair: with the
\* node alive it returns for every pair of values, and when acceleration_limit <= 0
\* or deceleration_limit >= 0 it logs and stores |acceleration_limit| and
\* -|deceleration_limit|, so that afterwards the acceleration limit is positive
\* and the deceleration limit is negative.
C13_LimitsSignCorrected ==
  (node_alive /\ cfg_pc # "ready") =>
    /\ cfg_pc = "returned"
    /\ (param_acceleration_limit <= 0 \/ param_deceleration_limit >= 0) =>
         /\ cfg_logged
         /\ acceleration_limit_ = <<Abs(param_acceleration_limit)>>
         /\ deceleration_limit_ = <<0 - Abs(param_deceleration_limit)>>
    /\ acceleration_limit_[1] > 0
    /\ deceleration_limit_[1] < 0

\* ------------------------------------------------------------------ claims on followWaypointsHandler

\* C14 as stated: whenever the waypoint list of the goal being started is
\* empty, at the first goal or for a goal accepted by preemption, the handler
\* terminates the current action with NO_VALID_WAYPOINTS and returns without
\* sending a navigation goal for that request.
C14_EmptyRequestAlwaysTerminated ==
  (wf_pc \notin {"idle", "start"} /\ poses = <<>>) =>
    /\ wf_pc = "returned"
    /\ server_call = "terminate_current"
    /\ result.error_code = "NO_VALID_WAYPOINTS"
    /\ \A k \in DOMAIN sent_goals : sent_goals[k].request # wf_request

\* C14: when the waypoint list of the goal being started is empty the handler
\* returns without sending a navigation goal for that request; it terminates
\* the current action with NO_VALID_WAYPOINTS for a goal accepted by preemption,
\* and at the first goal when the action server is active; at the first goal
\* with the server inactive it returns without terminating anything.
C14_EmptyRequest ==
  (wf_pc \notin {"idle", "start"} /\ poses = <<>>) =>
    /\ wf_pc = "returned"
    /\ \A k \in DOMAIN sent_goals : sent_goals[k].request # wf_request
    /\ IF wf_request = 0 /\ ~server_active
       THEN server_call = "none" /\ result.error_code = "NONE"
       ELSE server_call = "terminate_current" /\ result.error_code = "NO_VALID_WAYPOINTS"

\* a goal with no waypoints was accepted by preemption after a navigation goal
\* of the first request had been sent, and the action was terminated
C14_Witness ==
  /\ wf_request = 1
  /\ poses = <<>>
  /\ Len(sent_goals) = 1
  /\ server_call = "terminate_current"
  /\ result.error_code = "NO_VALID_WAYPOINTS"
  /\ wf_pc = "returned"

\* the cycle run last reached the tests of the navigation status, with the goal
\* it was entered with: no cancel, no preemption, no goal to send
ReachedStatusTests ==
  /\ wf_pc \notin {"idle", "start"}
  /\ cycle_entry # NoEntry
  /\ ~cycle_entry.cancel
  /\ ~cycle_entry.preempt
  /\ ~cycle_entry.new_goal

\* C15: with stop_on_failure_ true, the cycle that finds the navigation status
\* of its waypoint FAILED or UNKNOWN appends that waypoint (the only entry, as
\* it is the first to fail) to missed_waypoints, terminates the action with
\* STOP_ON_MISSED_WAYPOINT, resets the stored error code and message to 0 and
\* empty, and returns; the task executor is not invoked for that waypoint, and
\* once the handler has returned no navigation goal is sent and no task run.
C15_StopOnMissedWaypoint ==
  /\ [](( /\ ReachedStatusTests
          /\ stop_on_failure_
          /\ cycle_entry.status \in {"FAILED", "UNKNOWN"} ) =>
         ( /\ wf_pc = "returned"
           /\ server_call = "terminate_current"
           /\ result.error_code = "STOP_ON_MISSED_WAYPOINT"
           /\ Len(result.missed_waypoints) = 1
           /\ result.missed_waypoints[1].waypoint_index = cycle_entry.goal_index
           /\ result.missed_waypoints[1].waypoint_pose = At(poses, cycle_entry.goal_index)
           /\ sent_goals[Len(sent_goals)].waypoint_index = cycle_entry.goal_index
           /\ \A k \in DOMAIN task_calls : task_calls[k].goal < Len(sent_goals)
           /\ current_goal_status_.error_code = "NONE"
           /\ current_goal_status_.error_msg = "" ))
  /\ [][wf_pc = "returned" =>
          (wf_pc' = "returned" /\ sent_goals' = sent_goals /\ task_calls' = task_calls
           /\ server_call' = server_call /\ result' = result)]_vars

\* the second navigation goal ended with an unknown result code and the action
\* was stopped on it
C15_Witness ==
  /\ ReachedStatusTests
  /\ stop_on_failure_
  /\ cycle_entry.status = "UNKNOWN"
  /\ Len(sent_goals) = 2
  /\ Len(task_calls) = 1
  /\ Len(result.missed_waypoints) = 1
  /\ result.error_code = "STOP_ON_MISSED_WAYPOINT"
  /\ server_call = "terminate_current"

\* no cancel and no other goal was requested
Uninterrupted == ~cancel_requested /\ pending_goal = <<>> /\ wf_request = 0

\* a client callback stored FAILED or UNKNOWN while navigation goal number k was the last sent
NavigationFailed(k) ==
  \E j \in DOMAIN nav_results :
    nav_results[j].goal = k /\ nav_results[j].status \in {"FAILED", "UNKNOWN"}

\* processAtWaypoint returned false for navigation goal number k
TaskFailed(k) ==
  \E j \in DOMAIN task_calls : task_calls[j].goal = k /\ ~task_calls[j].is_task_executed

\* the handler ran the status tests on navigation goal number k
Evaluated(k) == k < Len(sent_goals) \/ new_goal

RECURSIVE FailedWaypoints(_)
\* index and pose of the waypoints of the navigation goals 1..k that failed, in
\* the order the goals were sent
FailedWaypoints(k) ==
  IF k = 0 THEN <<>>
  ELSE IF Evaluated(k) /\ (NavigationFailed(k) \/ TaskFailed(k))
       THEN Append(FailedWaypoints(k - 1),
              [waypoint_index |-> sent_goals[k].waypoint_index,
               waypoint_pose |-> At(current_goal.poses, sent_goals[k].waypoint_index)])
       ELSE FailedWaypoints(k - 1)

\* the index that follows i in a list of n waypoints followed in loops
FollowingIndex(i, n) == IF i + 1 >= n THEN 0 ELSE i + 1

\* C16: with stop_on_failure_ false and no cancel or preemption, a failed
\* navigation goal or waypoint task never terminates the action: missed_waypoints
\* holds one entry, with the waypoint's index and pose, for every failure so far
\* and in the order of processing, the goal sent after any goal is the one for
\* the following waypoint, and the handler returns only through succeeded_current.
C16_FailuresAreRecordedNotFatal ==
  (wf_pc \notin {"idle", "start"} /\ ~stop_on_failure_ /\ Uninterrupted
     /\ server_active /\ current_goal.poses # <<>>) =>
    /\ server_call \in {"none", "succeeded_current"}
    /\ wf_pc = "returned" <=> server_call = "succeeded_current"
    /\ result.error_code = "NONE"
    /\ [j \in DOMAIN result.missed_waypoints |->
          [waypoint_index |-> result.missed_waypoints[j].waypoint_index,
           waypoint_pose |-> result.missed_waypoints[j].waypoint_pose]]
         = FailedWaypoints(Len(sent_goals))
    /\ \A k \in 1..(Len(sent_goals) - 1) :
         sent_goals[k + 1].waypoint_index =
           FollowingIndex(sent_goals[k].waypoint_index, Len(current_goal.poses))

\* with stop_on_failure_ false, an active server, waypoints to follow and no
\* cancel or preemption ever, the handler gets to succeeded_current (a property
\* of SpecWaypointFair: every navigation goal is answered)
EventuallySucceeds ==
  <>( \/ ~Uninterrupted
      \/ stop_on_failure_ \/ ~server_active \/ current_goal.poses = <<>>
      \/ server_call = "succeeded_current" )

\* the action succeeded after a navigation failure at waypoint 0 and a task
\* failure at waypoint 1, both on record in that order
C16_Witness ==
  /\ ~stop_on_failure_
  /\ Uninterrupted
  /\ server_call = "succeeded_current"
  /\ Len(result.missed_waypoints) = 2
  /\ result.missed_waypoints[1].waypoint_index = 0
  /\ result.missed_waypoints[1].error_code = "NAVIGATION_ERROR"
  /\ result.missed_waypoints[2].waypoint_index = 1
  /\ result.missed_waypoints[2].error_code = "TASK_EXECUTOR_FAILED"
  /\ NavigationFailed(1)
  /\ TaskFailed(2)

\* the waypoint indices of a request for n waypoints that starts at index g and
\* asks for l loops: g..n-1, then l passes 0..n-1
ExpectedOrder(g, n, l) == [k \in 1..((n - g) + l * n) |-> (g + k - 1) % n]

\* what C17 says of a state of an invocation without cancel, preemption or
\* stop-on-failure termination
InOrderOneAtATime ==
  (wf_pc \notin {"idle", "start"} /\ Uninterrupted /\ server_active
     /\ current_goal.poses # <<>> /\ server_call # "terminate_current") =>
    LET order == ExpectedOrder(current_goal.goal_index, Len(current_goal.poses),
                               current_goal.number_of_loops)
    IN  /\ Len(sent_goals) <= Len(order)
        /\ \A k \in DOMAIN sent_goals :
             /\ sent_goals[k].waypoint_index = order[k]
             /\ sent_goals[k].pose = At(current_goal.poses, order[k])
             /\ k > 1 => sent_goals[k].previous \in {"SUCCEEDED", "FAILED", "UNKNOWN"}
        /\ (wf_pc = "loop" /\ new_goal) => Len(sent_goals) < Len(order)
        /\ server_call = "succeeded_current" <=>
             (wf_pc = "returned" /\ Len(sent_goals) = Len(order)
                /\ current_goal_status_.status # "PROCESSING")
        /\ feedback_current_waypoint =
             IF sent_goals = <<>> THEN <<>>
             ELSE <<sent_goals[Len(sent_goals)].waypoint_index>>

\* C17: without cancel, preemption and stop-on-failure termination, goals are
\* sent for the waypoints goal_index..n-1 and then for number_of_loops passes
\* 0..n-1, in that order, each after the one before left PROCESSING;
\* succeeded_current is called when all were sent and the last one is done, and
\* nothing is sent or called after it; the published current_waypoint is the
\* index of the goal sent last.
C17_GoalsSentInOrder ==
  /\ []InOrderOneAtATime
  /\ [][server_call = "succeeded_current" =>
          /\ wf_pc' = "returned"
          /\ UNCHANGED <<server_call, sent_goals, task_calls, result,
                         feedback_current_waypoint>>]_vars

\* a request for two waypoints, one loop, starting at index 1: goals for 1, 0, 1
\* were sent and the action succeeded
C17_Witness ==
  /\ Uninterrupted
  /\ current_goal.goal_index = 1
  /\ current_goal.number_of_loops = 1
  /\ Len(sent_goals) = 3
  /\ sent_goals[1].waypoint_index = 1
  /\ sent_goals[2].waypoint_index = 0
  /\ sent_goals[3].waypoint_index = 1
  /\ feedback_current_waypoint = <<1>>
  /\ server_call = "succeeded_current"

\* index and pose of the entries of a sequence of records that satisfy Test
Waypoints(seq, Test(_), pose_field) ==
  LET sel == SelectSeq(seq, Test)
  IN  [j \in DOMAIN sel |-> <<sel[j].waypoint_index, sel[j][pose_field]>>]

TaskExecutorFailed(w) == w.error_code = "TASK_EXECUTOR_FAILED"

ReturnedFalse(t) == ~t.is_task_executed

\* C18: processAtWaypoint is called at most once per navigation goal, with the
\* pose and index of that goal, while it is the goal sent last and after a result
\* callback stored SUCCEEDED for it; the calls that returned false are, in order,
\* the missed waypoints with TASK_EXECUTOR_FAILED, and with stop_on_failure_ such
\* a call is the last thing the handler did before terminate_current with
\* TASK_EXECUTOR_FAILED.
C18_TaskOncePerSucceededGoal ==
  /\ \A j \in DOMAIN task_calls :
       LET t == task_calls[j]
       IN  /\ t.goal \in DOMAIN sent_goals
           /\ \A i \in DOMAIN task_calls : i < j => task_calls[i].goal < t.goal
           /\ t.status = "SUCCEEDED"
           /\ \E r \in DOMAIN nav_results :
                nav_results[r].goal = t.goal /\ nav_results[r].status = "SUCCEEDED"
           /\ t.waypoint_index = sent_goals[t.goal].waypoint_index
           /\ t.pose = sent_goals[t.goal].pose
           /\ t.pose = <<sent_goals[t.goal].request, t.waypoint_index>>
           /\ (~t.is_task_executed /\ stop_on_failure_) =>
                /\ j = Len(task_calls)
                /\ t.goal = Len(sent_goals)
                /\ wf_pc = "returned"
                /\ server_call = "terminate_current"
                /\ result.error_code = "TASK_EXECUTOR_FAILED"
  /\ Waypoints(result.missed_waypoints, TaskExecutorFailed, "waypoint_pose")
       = Waypoints(task_calls, ReturnedFalse, "pose")
  /\ result.error_code = "TASK_EXECUTOR_FAILED" =>
       /\ stop_on_failure_
       /\ task_calls # <<>>
       /\ ~task_calls[Len(task_calls)].is_task_executed

\* with stop_on_failure_ the task succeeded at waypoint 0 and returned false at
\* waypoint 1, which ended the action
C18_Witness ==
  /\ stop_on_failure_
  /\ Len(task_calls) = 2
  /\ task_calls[1].is_task_executed
  /\ task_calls[1].waypoint_index = 0
  /\ ~task_calls[2].is_task_executed
  /\ task_calls[2].waypoint_index = 1
  /\ Len(result.missed_waypoints) = 1
  /\ result.missed_waypoints[1].error_code = "TASK_EXECUTOR_FAILED"
  /\ server_call = "terminate_current"

C20_Invalid(command) ==
  \/ command.target.y # 0
  \/ command.target.z # 0
  \/ (command.target.x > 0) # (command.speed > 0)

\* C20: onRun returns FAILED with INVALID_INPUT exactly when target.y or
\* target.z is not 0 or the signs of target.x and speed differ, and then
\* command_x_, command_speed_, the time allowance, end_time_ and initial_pose_
\* are what they were before the call.
C20_InvalidInputLeavesCommand ==
  run_pc = "returned" =>
    LET command == run_command[1]
        before == run_before[1]
    IN  /\ run_ret = InvalidInput <=> C20_Invalid(command)
        /\ run_ret.error_code = "INVALID_INPUT" => run_ret.status = "FAILED"
        /\ C20_Invalid(command) =>
             /\ command_x_ = before.command_x_
             /\ command_speed_ = before.command_speed_
             /\ command_time_allowance_ = before.command_time_allowance_
             /\ end_time_ = before.end_time_
             /\ initial_pose_ = before.initial_pose_

\* a command to drive backwards at a forward speed, sent after a command to
\* drive forwards was taken: it was refused and the forward command is still
\* the one stored
C20_Witness ==
  /\ run_pc = "returned"
  /\ run_calls = 2
  /\ run_command[1].target = [x |-> 0 - 1, y |-> 0, z |-> 0]
  /\ run_command[1].speed = 1
  /\ run_command[1].time_allowance = 2
  /\ run_ret = InvalidInput
  /\ command_x_ = 1
  /\ command_speed_ = 1
  /\ command_time_allowance_ = 1
  /\ end_time_ = 1
  /\ initial_pose_ = <<1>>

\* ------------------------------------------------------------------ claims on DriveOnHeading::onCycleUpdate

\* a cycle of the action under way has run
Cycled == cyc_ret # <<>>

\* the cycle run last started after the deadline of an action with a time allowance
PastDeadline == cyc_entry.now > end_time_ /\ command_time_allowance_ > 0

\* C21: a cycle returns FAILED with TIMEOUT, having stopped the robot, exactly
\* when the clock it reads has passed end_time_, the time onRun read plus the
\* time allowance, and the allowance is positive: the pose is not looked up, no
\* feedback and no velocity command is published and the cycle reports neither
\* SUCCEEDED nor RUNNING; with a zero allowance TIMEOUT is never returned.
C21_TimeoutFirst ==
  Cycled =>
    /\ end_time_ = action_start + command_time_allowance_
    /\ PastDeadline <=> cyc_ret = Status("FAILED", "TIMEOUT")
    /\ cyc_ret.error_code = "TIMEOUT" => cyc_ret.status = "FAILED"
    /\ PastDeadline =>
         cyc_out = [stopped |-> TRUE, feedback |-> <<>>, published |-> <<>>]
    /\ command_time_allowance_ = 0 => cyc_ret.error_code # "TIMEOUT"

\* the deadline had passed in a cycle that found the robot at the distance to
\* drive: it returned TIMEOUT, not SUCCEEDED
C21_Witness ==
  /\ Cycled
  /\ command_time_allowance_ = 1
  /\ cyc_entry.now = end_time_ + 1
  /\ cyc_entry.pose # <<>>
  /\ initial_pose_ = << <<0, 0>> >>
  /\ cyc_entry.pose = << <<0, 4>> >>
  /\ cyc_ret = Status("FAILED", "TIMEOUT")
  /\ cyc_out.stopped

\* the square of the planar distance between the pose captured in onRun and the
\* pose the cycle run last read
SquaredPlanarDistance ==
  LET dx == initial_pose_[1][1] - cyc_entry.pose[1][1]
      dy == initial_pose_[1][2] - cyc_entry.pose[1][2]
  IN  dx * dx + dy * dy

\* C22: a cycle that is not past the deadline and reads a pose returns SUCCEEDED
\* if and only if the planar distance from the pose captured in onRun is at
\* least |command_x_|; it then has published that distance as feedback and
\* stopped the robot, and has published no velocity command.
C22_SucceedsAtDistance ==
  (Cycled /\ ~PastDeadline /\ cyc_entry.pose # <<>>) =>
    /\ cyc_ret.status = "SUCCEEDED" <=> SquaredPlanarDistance >= command_x_ * command_x_
    /\ cyc_ret.status = "SUCCEEDED" =>
         /\ cyc_ret.error_code = "NONE"
         /\ cyc_out.stopped
         /\ cyc_out.published = <<>>
    /\ cyc_out.feedback # <<>>
    /\ cyc_out.feedback[1] >= 0
    /\ cyc_out.feedback[1] * cyc_out.feedback[1] = SquaredPlanarDistance

\* the robot is exactly the distance to drive away from where it started, to
\* the side: the cycle succeeded
C22_Witness ==
  /\ Cycled
  /\ ~PastDeadline
  /\ command_x_ = 0 - 4
  /\ initial_pose_ = << <<0, 0>> >>
  /\ cyc_entry.pose = << <<0, 4>> >>
  /\ cyc_ret = Status("SUCCEEDED", "NONE")
  /\ cyc_out = [stopped |-> TRUE, feedback |-> <<4>>, published |-> <<>>]

\* the velocity command of the cycle run last, if it published one
Published == cyc_out.published[1]

\* C27: a velocity command published by a cycle has linear.y = 0 and
\* angular.z = 0, a linear.x that is not negative when command_speed_ > 0 and
\* not positive otherwise, and |linear.x| >= minimum_speed_ (last_vel_ being
\* reset by onActionCompletion, and the limits as onConfigure leaves them).
C27_CommandAlongHeading ==
  /\ (deceleration_limit_[1] <= 0 /\ 0 <= acceleration_limit_[1])
  /\ cyc_out.published # <<>> =>
       /\ Published.linear_y = 0
       /\ Published.angular_z = 0
       /\ IF command_speed_ > 0 THEN Published.linear_x >= 0 ELSE Published.linear_x <= 0
       /\ Abs(Published.linear_x) >= minimum_speed_[1]
  /\ \A k \in DOMAIN cyc_published :
       /\ IF command_speed_ > 0 THEN cyc_published[k].linear_x >= 0
          ELSE cyc_published[k].linear_x <= 0
       /\ Abs(cyc_published[k].linear_x) >= minimum_speed_[1]

\* the second action drives backwards after one that drove forwards at speed 3:
\* its first command is a backward one, raised to minimum_speed_
C27_Witness ==
  /\ run_calls = 2
  /\ cyc_completed = 1
  /\ command_speed_ = 0 - 3
  /\ minimum_speed_ = <<1>>
  /\ cyc_count = 1
  /\ cyc_out.published = <<[linear_x |-> 0 - 1, linear_y |-> 0, angular_z |-> 0]>>
  /\ cyc_published = <<[linear_x |-> 0 - 1, raised |-> TRUE]>>

\* the speed along the direction of travel
Along(linear_x) == IF command_speed_ > 0 THEN linear_x ELSE 0 - linear_x

\* the speed published before the k-th command of the action, 0 for the first
PreviousSpeed(k) == IF k = 1 THEN 0 ELSE cyc_published[k - 1].linear_x

\* C28: along the direction of travel, each published speed exceeds the one
\* published before it in the action, 0 for the first, by at most
\* acceleration_limit_ / cycle_frequency_, unless the test of minimum_speed_
\* raised it to exactly minimum_speed_.
C28_AccelerationLimited ==
  \A k \in DOMAIN cyc_published :
    \/ (Along(cyc_published[k].linear_x) - Along(PreviousSpeed(k))) * cycle_frequency_
         <= acceleration_limit_[1]
    \/ /\ cyc_published[k].raised
       /\ Along(cyc_published[k].linear_x) = minimum_speed_[1]

\* the second action, after one that had reached speed 3, starts again from 0:
\* 2 in its first cycle and 3 in its second, with 2 per cycle allowed
C28_Witness ==
  /\ run_calls = 2
  /\ cyc_completed = 1
  /\ command_speed_ = 3
  /\ acceleration_limit_ = <<2>>
  /\ cycle_frequency_ = 1
  /\ cyc_published = <<[linear_x |-> 2, raised |-> FALSE], [linear_x |-> 3, raised |-> FALSE]>>

\* ------------------------------------------------------------------ claims on Range::getData

\* the message received last
LatestMessage == rg_received[Len(rg_received)]

\* the cases in which C23 says getData gives nothing
NoRangeData ==
  \/ rg_received = <<>>
  \/ rg_curr_time - LatestMessage.stamp > source_timeout_
  \/ LatestMessage.range < LatestMessage.min_range
  \/ LatestMessage.range > LatestMessage.max_range
  \/ rg_tf = <<>>

\* C23: getData returns false and leaves the vector of points as it was when
\* no message was received yet, when the message received last is older than
\* source_timeout_, when its range is below min_range or above max_range, or
\* when there is no transform; otherwise, a range equal to min_range or
\* max_range included, it returns true and has appended the points of the
\* message received last, and of no other.
C23_NoDataLeavesPoints ==
  rg_pc = "returned" =>
    IF NoRangeData
    THEN rg_ret = FALSE /\ rg_data = rg_data_before
    ELSE /\ rg_ret = TRUE
         /\ Len(rg_data) > Len(rg_data_before)
         /\ SubSeq(rg_data, 1, Len(rg_data_before)) = rg_data_before
         /\ \A k \in (Len(rg_data_before) + 1)..Len(rg_data) :
              /\ rg_data[k].range = LatestMessage.range
              /\ rg_data[k].tf_transform = rg_tf[1]
              /\ 2 * Abs(rg_data[k].angle) <= LatestMessage.field_of_view
         /\ 2 * rg_data[Len(rg_data)].angle = LatestMessage.field_of_view

\* after a message in the sensor's span one above max_range arrived: getData
\* returned false and left the points of the other source alone
C23_Witness ==
  /\ rg_pc = "returned"
  /\ rg_calls = 1
  /\ Len(rg_received) = 2
  /\ ~OutOfSpan(rg_received[1])
  /\ LatestMessage.range = LatestMessage.max_range + 1
  /\ rg_curr_time = LatestMessage.stamp
  /\ rg_tf # <<>>
  /\ rg_ret = FALSE
  /\ rg_data = <<OtherPoint>>

\* ------------------------------------------------------------------ claims on the filter's closed form

\* the 9 coefficients as the claim lists them, c[-4] first
QuadraticCoefficients == <<-21, 14, 39, 54, 59, 54, 39, 14, -21>>

\* one axis of the control history as a sequence of 4 values
HistoryAxis(history, axis) == [j \in 1..4 |-> history[j][axis]]

\* ext(j) for an input `in` of T elements: control_history[j+4] below 0, in[j]
\* inside 0..T-1 and in[T-1] above (all 0-based)
Ext(in, hist, j) ==
  IF j < 0 THEN hist[j + 5]
  ELSE IF j <= Len(in) - 1 THEN in[j + 1] ELSE in[Len(in)]

\* sum over k = -4..4 of c[k] * ext(i+k)
WeightedSum(in, hist, i) ==
  SumTo([k \in 1..9 |-> QuadraticCoefficients[k] * Ext(in, hist, i + k - 5)], 9)

\* out is the smoothed form of `in` with left boundary values hist
Smoothed(out, in, hist) ==
  /\ Len(out) = Len(in)
  /\ \A i \in 0..(Len(in) - 2) : 231 * out[i + 1] = WeightedSum(in, hist, i)
  /\ out[Len(in)] = in[Len(in)]

\* C24: when the filter is applied to T elements, on each axis and for each i
\* in 0..T-2, out[i] = (1/231) * sum over k=-4..4 of c[k]*ext(i+k) with
\* c = (-21,14,39,54,59,54,39,14,-21), ext(j) being control_history[j+4] for
\* j < 0, the unfiltered in[j] for 0 <= j <= T-1 and in[T-1] for j > T-1; every
\* output comes from the unfiltered input and out[T-1] stays in[T-1].
C24_ClosedForm ==
  sg_applied =>
    \A axis \in {"vx", "vy", "wz"} :
      Smoothed(control_sequence[axis], sg_sequence_before[axis],
               HistoryAxis(sg_history_before, axis))

\* a second application (its input is the first one's output) whose history
\* differs from the first input value and whose tail is padded with the last point
C24_Witness ==
  /\ sg_applied
  /\ sg_calls = 2
  /\ Len(sg_sequence_before.vy) = 21
  /\ sg_history_before[4].vy # sg_sequence_before.vy[1]
  /\ control_sequence.vy[1] # sg_sequence_before.vy[1]
  /\ control_sequence.vy[20] # sg_sequence_before.vy[20]
  /\ 231 * control_sequence.vy[20] =
       WeightedSum(sg_sequence_before.vy, HistoryAxis(sg_history_before, "vy"), 19)
  /\ sg_sequence_before.vy[21] # sg_sequence_before.vy[20]
  /\ control_sequence.vy[21] = sg_sequence_before.vy[21]

\* ------------------------------------------------------------------ claims on the filter's threshold

\* the last call smoothed every axis and advanced the control history by one
AppliedAndAdvanced ==
  /\ sg_applied
  /\ \A axis \in {"vx", "vy", "wz"} :
       Smoothed(control_sequence[axis], sg_sequence_before[axis],
                HistoryAxis(sg_history_before, axis))
  /\ Len(control_history) = 4
  /\ \A j \in 1..3 : control_history[j] = sg_history_before[j + 1]
  /\ LET at == IF shift_control_sequence THEN 2 ELSE 1
     IN  control_history[4] = [vx |-> control_sequence.vx[at],
                               vy |-> control_sequence.vy[at],
                               wz |-> control_sequence.wz[at]]

\* the last call left the control sequence and the control history as they were
Skipped ==
  /\ ~sg_applied
  /\ control_sequence = sg_sequence_before
  /\ control_history = sg_history_before

\* the statement as first written: for every control sequence with 20 or more
\* elements (in particular exactly 20) the filter is applied and the control
\* history is advanced
C25_AppliedFromTwentyElements ==
  (sg_calls > 0 /\ Len(sg_sequence_before.vx) >= 20) => AppliedAndAdvanced

\* C25: smoothing is skipped only when the number of elements less one is below
\* the 20-step threshold: for every control sequence with 21 or more elements
\* the filter is applied and the control history is advanced, and a sequence
\* of exactly 20 elements is skipped like the shorter ones.
C25_AppliedFromTwentyOneElements ==
  sg_calls > 0 =>
    /\ Len(sg_sequence_before.vx) >= 21 => AppliedAndAdvanced
    /\ Len(sg_sequence_before.vx) <= 20 => Skipped

\* the shortest sequence that is smoothed, after one call that changed it
C25_Witness ==
  /\ sg_calls = 1
  /\ Len(sg_sequence_before.vx) = 21
  /\ AppliedAndAdvanced
  /\ control_sequence # sg_sequence_before
  /\ control_history # sg_history_before

\* a sequence of exactly 20 elements, after a call that skipped it
C25_TwentyElementsSkipped ==
  /\ sg_calls = 1
  /\ Len(sg_sequence_before.vx) = 20
  /\ Skipped

\* ------------------------------------------------------------------ claims on the returned path index

\* C26: for a non-empty path, findPathFurthestReachedPoint returns an index in
\* [0, path length - 1] that is at least the maximum, over all trajectory rows,
\* of the row's nearest path index searched over the whole path (lowest index
\* on distance ties) from the row's final timestep; it returns 0 when there
\* are no rows.
C26_AtLeastEveryNearestIndex ==
  (fr_pc = "done" /\ Len(fr_path) > 0) =>
    /\ fr_ret \in 0..(Len(fr_path) - 1)
    /\ fr_ret >= fr_nearest
    /\ fr_n_rows = 0 => fr_ret = 0

\* three rows on a path of three points, the last row's nearest index lying
\* behind the cursor: the returned index is beyond that row's nearest index
C26_Witness ==
  /\ fr_pc = "done"
  /\ Len(fr_path) = 3
  /\ fr_n_rows = 3
  /\ fr_nearest = 1
  /\ fr_ret = 2
  /\ fr_prev_max_id = 1

=============================================================================
